---- MODULE Spec2Model ----
(***************************************************************************)
(* Quantum Vibe Trader: the decision cycle of decideTrade                  *)
(* (src/ai/decision_engine.js), with the sentiment engine, the technical   *)
(* signal analyzer and the risk manager it calls.                          *)
(*                                                                         *)
(* JavaScript Numbers are modelled as exact rationals <<n, d>> in lowest   *)
(* terms with d > 0.  null / undefined is Null == <<0, 0>> and NaN is      *)
(* NaN == <<1, 0>>; both are falsy, as is zero.                            *)
(***************************************************************************)
EXTENDS Integers, Sequences, FiniteSets, TLC

(***************************************************************************)
(* JavaScript Number arithmetic, exact                                     *)
(***************************************************************************)
RECURSIVE GCD(_, _)
GCD(a, b) ==
    IF b = 0 THEN a ELSE GCD(b, a % b)

Abs(n) ==
    IF n < 0 THEN -n ELSE n

\* n / d reduced by the common divisor g, the denominator kept positive
RatOver(n, d, g) ==
    IF d < 0 THEN << (-n) \div g, (-d) \div g >> ELSE << n \div g, d \div g >>

Rat(n, d) ==
    RatOver(n, d, GCD(Abs(n), Abs(d)))

Num(n) ==
    << n, 1 >>

Null ==
    << 0, 0 >>

NaN ==
    << 1, 0 >>

IsNum(x) ==
    x[2] # 0

\* JavaScript truthiness of a Number-or-null value: null, NaN and 0 are falsy.
Truthy(x) ==
    x[2] # 0 /\ x[1] # 0

\* a || b
OrElse(a, b) ==
    IF Truthy(a) THEN a ELSE b

\* x + y, g the common divisor of the denominators
RAddOver(x, y, g) ==
    Rat(x[1] * (y[2] \div g) + y[1] * (x[2] \div g), (x[2] \div g) * y[2])

RAdd(x, y) ==
    RAddOver(x, y, GCD(x[2], y[2]))

RNeg(x) ==
    << -x[1], x[2] >>

RSub(x, y) ==
    RAdd(x, RNeg(y))

RMul(x, y) ==
    Rat((x[1] \div GCD(Abs(x[1]), y[2])) * (y[1] \div GCD(Abs(y[1]), x[2])),
        (x[2] \div GCD(Abs(y[1]), x[2])) * (y[2] \div GCD(Abs(x[1]), y[2])))

\* x / y for y # 0
RDiv(x, y) ==
    RMul(x, Rat(y[2], y[1]))

\* x < y, g the common divisor of the denominators
RLtOver(x, y, g) ==
    x[1] * (y[2] \div g) < y[1] * (x[2] \div g)

RLt(x, y) ==
    RLtOver(x, y, GCD(x[2], y[2]))

RLe(x, y) ==
    ~RLt(y, x)

RMin(x, y) ==
    IF RLt(y, x) THEN y ELSE x

RMax(x, y) ==
    IF RLt(x, y) THEN y ELSE x

RAbs(x) ==
    << Abs(x[1]), x[2] >>

\* Math.round: the nearest integer, halves rounded towards +Infinity.
Round(x) ==
    (2 * x[1] + x[2]) \div (2 * x[2])

(***************************************************************************)
(* JavaScript Number arithmetic, rounded: IEEE-754 binary floating point   *)
(* with round-to-nearest-even after every operation, the significand       *)
(* shortened from 53 to MantissaBits bits; the exponent range is not       *)
(* limited.  A decimal literal denotes the nearest representable value.    *)
(* The binary expansions of the fifths (0.1, 0.2, 0.4, ...) have period 4, *)
(* so at a precision that is 1 modulo 4, as 53 is, their literals round    *)
(* in the direction they round in double precision.                        *)
(***************************************************************************)
MantissaBits ==
    9

Pow2(e) ==
    IF e >= 0 THEN << 2^e, 1 >> ELSE << 1, 2^(-e) >>

\* f + rem/d to the nearest integer, ties to even (twiceRem = 2 * rem)
RoundEvenAt(f, twiceRem, d) ==
    IF twiceRem > d \/ (twiceRem = d /\ f % 2 = 1) THEN f + 1 ELSE f

RoundEven(x) ==
    RoundEvenAt(x[1] \div x[2], 2 * (x[1] % x[2]), x[2])

\* a * 2^e for a > 0, rounded to MantissaBits significant bits
RECURSIVE FlScale(_, _)
FlScale(a, e) ==
    IF a[1] \div a[2] >= 2^MantissaBits THEN FlScale(RDiv(a, Num(2)), e + 1)
    ELSE IF a[1] \div a[2] < 2^(MantissaBits - 1) THEN FlScale(RMul(a, Num(2)), e - 1)
    ELSE RMul(Num(RoundEven(a)), Pow2(e))

\* the representable value nearest to x
Fl(x) ==
    IF ~IsNum(x) THEN NaN
    ELSE IF x[1] = 0 THEN x
    ELSE IF x[1] < 0 THEN RNeg(FlScale(RNeg(x), 0))
    ELSE FlScale(x, 0)

\* a decimal literal n/d of the source text
Literal(n, d) ==
    Fl(Rat(n, d))

FAdd(a, b) ==
    IF IsNum(a) /\ IsNum(b) THEN Fl(RAdd(a, b)) ELSE NaN

FSub(a, b) ==
    IF IsNum(a) /\ IsNum(b) THEN Fl(RSub(a, b)) ELSE NaN

FMul(a, b) ==
    IF IsNum(a) /\ IsNum(b) THEN Fl(RMul(a, b)) ELSE NaN

\* a / b for b # 0
FDiv(a, b) ==
    IF IsNum(a) /\ IsNum(b) THEN Fl(RDiv(a, b)) ELSE NaN

\* the largest c in lo..hi with c * c <= n
RECURSIVE ISqrtIn(_, _, _)
ISqrtStep(n, lo, hi, mid) ==
    IF mid * mid <= n THEN ISqrtIn(n, mid, hi) ELSE ISqrtIn(n, lo, mid - 1)

ISqrtIn(n, lo, hi) ==
    IF lo = hi THEN lo ELSE ISqrtStep(n, lo, hi, (lo + hi + 1) \div 2)

\* c = floor(sqrt(y)): sqrt(y) to the nearest integer
SqrtRound(y, c) ==
    IF RLt(Rat(4 * c * c + 4 * c + 1, 4), y) THEN c + 1 ELSE c

\* sqrt(y * 4^e) for y > 0, rounded to MantissaBits significant bits
RECURSIVE SqrtScale(_, _)
SqrtScale(y, e) ==
    IF y[1] \div y[2] >= 4^MantissaBits THEN SqrtScale(RDiv(y, Num(4)), e + 1)
    ELSE IF y[1] \div y[2] < 4^(MantissaBits - 1) THEN SqrtScale(RMul(y, Num(4)), e - 1)
    ELSE RMul(Num(SqrtRound(y, ISqrtIn(y[1] \div y[2], 0, 2^MantissaBits))), Pow2(e))

\* Math.sqrt, correctly rounded; NaN for a negative argument
FSqrt(x) ==
    IF ~IsNum(x) THEN NaN
    ELSE IF x[1] < 0 THEN NaN
    ELSE IF x[1] = 0 THEN x
    ELSE SqrtScale(x, 0)

(***************************************************************************)
(* Math.tanh, by linear interpolation between tabulated values (argument   *)
(* and value in thousandths); odd, monotone, 0 at 0 and within [-1, 1].    *)
(***************************************************************************)
TanhKnots ==
    << <<0, 0>>, <<200, 197>>, <<400, 380>>, <<600, 537>>, <<800, 664>>,
       <<1000, 762>>, <<1500, 905>>, <<2000, 964>>, <<3000, 995>>, <<5000, 1000>> >>

\* the value on the chord from knot p to knot q
TanhChord(ax, p, q) ==
    RAdd(Rat(p[2], 1000),
         RMul(RSub(ax, Rat(p[1], 1000)), Rat(q[2] - p[2], q[1] - p[1])))

TanhSegment(ax) ==
    CHOOSE k \in 1..(Len(TanhKnots) - 1) :
        /\ RLe(Rat(TanhKnots[k][1], 1000), ax)
        /\ RLt(ax, Rat(TanhKnots[k + 1][1], 1000))

TanhAt(ax, k) ==
    TanhChord(ax, TanhKnots[k], TanhKnots[k + 1])

TanhPos(ax) ==
    IF RLe(Num(5), ax) THEN Num(1) ELSE TanhAt(ax, TanhSegment(ax))

Tanh(x) ==
    IF x[1] < 0 THEN RNeg(TanhPos(RAbs(x))) ELSE TanhPos(x)

(***************************************************************************)
(* Sentiment fusion engine (src/strategies/sentiment_engine.js)            *)
(***************************************************************************)
clamp(x, a, b) ==
    RMin(b, RMax(a, x))

\* An absent social object takes every field's default, 0.
NoSocial ==
    [twitterScore |-> Num(0), telegramScore |-> Num(0),
     trendsScore |-> Num(0), newsScore |-> Num(0)]

\* Math.round(weighted * 50 + 50), clamped to 0..100
toScore(weighted) ==
    clamp(Num(Round(RAdd(RMul(weighted, Num(50)), Num(50)))), Num(0), Num(100))[1]

scoreSocial(social) ==
    toScore(RAdd(RAdd(RMul(Rat(35, 100), social.twitterScore),
                      RMul(Rat(20, 100), social.telegramScore)),
                 RAdd(RMul(Rat(25, 100), social.newsScore),
                      RMul(Rat(20, 100), social.trendsScore))))

\* An absent on-chain object takes every field's default, 0.  Whale flows
\* are carried in millions of USD (the code divides by 1_000_000).
NoOnChain ==
    [whaleNetMUsd |-> Num(0), exchangeNetflow |-> Num(0),
     gasPriceGwei |-> Num(0), activeAddrsDelta |-> Num(0)]

scoreOnChain(onchain) ==
    toScore(RAdd(RSub(RMul(Rat(45, 100), Tanh(onchain.whaleNetMUsd)),
                      RMul(Rat(25, 100), clamp(onchain.exchangeNetflow, Num(-1), Num(1)))),
                 RAdd(RMul(Rat(15, 100),
                           Tanh(RDiv(RSub(onchain.gasPriceGwei, Num(20)), Num(50)))),
                      RMul(Rat(15, 100), clamp(onchain.activeAddrsDelta, Num(-1), Num(1))))))

\* An absent market object: no levels, no clusters, an empty order book.
\* Cluster sizes are carried in millions (the code divides by 1_000_000).
NoMarket ==
    [supports |-> << >>, resistances |-> << >>, liquidationClusters |-> << >>,
     hasOrderbook |-> FALSE,
     orderbook |-> [imbalance |-> Num(0), bidDepth |-> Num(0), askDepth |-> Num(0)]]

\* levels.reduce((p, s) => Math.min(p, Math.abs(s - lastPrice)), Infinity),
\* for a non-empty sequence of levels.
RECURSIVE closestDistance(_, _)
closestDistance(levels, lastPrice) ==
    IF Len(levels) = 1
    THEN RAbs(RSub(Head(levels), lastPrice))
    ELSE RMin(RAbs(RSub(Head(levels), lastPrice)),
              closestDistance(Tail(levels), lastPrice))

\* the reduce callback's candidate for cluster c
clusterAt(c, lastPrice) ==
    [found |-> TRUE, d |-> RAbs(RSub(c.price, lastPrice)),
     side |-> IF RLt(lastPrice, c.price) THEN "above" ELSE "below",
     size |-> c.sizeM]

closerOf(best, cand) ==
    IF ~best.found \/ RLt(cand.d, best.d) THEN cand ELSE best

\* liquidationClusters.reduce(...): the nearest cluster, the first one on ties.
RECURSIVE nearestCluster(_, _, _)
nearestCluster(clusters, lastPrice, best) ==
    IF clusters = << >>
    THEN best
    ELSE nearestCluster(Tail(clusters), lastPrice,
                        closerOf(best, clusterAt(Head(clusters), lastPrice)))

clusterBiasOf(nearest) ==
    IF nearest.found
    THEN Tanh(IF nearest.side = "above" THEN RNeg(nearest.size) ELSE nearest.size)
    ELSE Num(0)

clusterBias(market, lastPrice) ==
    IF Len(market.liquidationClusters) > 0 /\ Truthy(lastPrice)
    THEN clusterBiasOf(nearestCluster(market.liquidationClusters, lastPrice,
                           [found |-> FALSE, d |-> Num(0), side |-> "below", size |-> Num(0)]))
    ELSE Num(0)

depthBias(ob) ==
    RAdd(Tanh(RMul(RDiv(RSub(ob.bidDepth, ob.askDepth),
                        RMax(Num(1), RAdd(ob.bidDepth, ob.askDepth))), Num(3))),
         RMul(clamp(ob.imbalance, Num(-1), Num(1)), Rat(1, 2)))

srBias(market, lastPrice) ==
    IF Truthy(lastPrice) /\ (Len(market.supports) > 0 \/ Len(market.resistances) > 0)
    THEN IF Len(market.supports) = 0
         THEN Num(-1)               \* nearS = Infinity, tanh(-Infinity)
         ELSE IF Len(market.resistances) = 0
         THEN Num(1)                \* nearR = Infinity, tanh(+Infinity)
         ELSE Tanh(RMul(RSub(RDiv(closestDistance(market.resistances, lastPrice), lastPrice),
                             RDiv(closestDistance(market.supports, lastPrice), lastPrice)),
                        Num(5)))
    ELSE Num(0)

scoreMarketStructure(market, lastPrice) ==
    toScore(RAdd(RAdd(RMul(Rat(1, 2), depthBias(market.orderbook)),
                      RMul(Rat(1, 2), srBias(market, lastPrice))),
                 RMul(Rat(3, 10), clusterBias(market, lastPrice))))

\* the label with the bullish threshold inclusive
sentimentLabel_InclusiveBullish(score) ==
    IF score >= 60 THEN "bullish" ELSE IF score < 40 THEN "bearish" ELSE "neutral"

sentimentLabel(score) ==
    IF score > 60 THEN "bullish" ELSE IF score < 40 THEN "bearish" ELSE "neutral"

fusedScore(socialScore, onchainScore, structureScore) ==
    Round(RAdd(RAdd(RMul(Rat(45, 100), Num(socialScore)),
                    RMul(Rat(35, 100), Num(onchainScore))),
               RMul(Rat(20, 100), Num(structureScore))))

fusedRecord(score, socialScore, onchainScore, structureScore) ==
    [score |-> score,
     label |-> sentimentLabel(score),
     breakdown |-> [socialScore |-> socialScore, onchainScore |-> onchainScore,
                    structureScore |-> structureScore]]

fuseScores(socialScore, onchainScore, structureScore) ==
    fusedRecord(fusedScore(socialScore, onchainScore, structureScore),
                socialScore, onchainScore, structureScore)

fuseSentiment(events, lastPrice) ==
    fuseScores(scoreSocial(events.social), scoreOnChain(events.onchain),
               scoreMarketStructure(events.market, lastPrice))

(***************************************************************************)
(* Configuration defaults (config/trading_config.js, trading.risk)        *)
(***************************************************************************)
maxPositionUsd ==
    5000

maxDailyLossUsd ==
    1000

stopLossBps ==
    100

takeProfitBps ==
    200

(***************************************************************************)
(* Risk manager (src/strategies/risk_manager.js)                           *)
(***************************************************************************)
\* capOrderSizeUsd without the upper clamp
capOrderSizeUsd_NoUpperCap(desiredUsd) ==
    RMax(Num(0), desiredUsd)

capOrderSizeUsd(desiredUsd) ==
    RMax(Num(0), RMin(desiredUsd, Num(maxPositionUsd)))

\* shouldHaltTrading with the daily-loss boundary exclusive
shouldHaltTrading_StrictLoss(realizedPnlTodayUsd, drawdownFromPeakPct, circuitBreaker) ==
    IF circuitBreaker THEN TRUE
    ELSE IF RLt(realizedPnlTodayUsd, Num(-Abs(maxDailyLossUsd))) THEN TRUE
    ELSE IF RLe(Num(10), drawdownFromPeakPct) THEN TRUE
    ELSE FALSE

shouldHaltTrading(realizedPnlTodayUsd, drawdownFromPeakPct, circuitBreaker) ==
    IF circuitBreaker THEN TRUE
    ELSE IF RLe(realizedPnlTodayUsd, Num(-Abs(maxDailyLossUsd))) THEN TRUE
    ELSE IF RLe(Num(10), drawdownFromPeakPct) THEN TRUE
    ELSE FALSE

bps(p) ==
    Rat(p, 10000)

computeStops(entryPrice, side, atrValue) ==
    IF Truthy(atrValue) /\ Truthy(entryPrice)
    THEN IF side = "buy"
         THEN [stopLoss   |-> RSub(entryPrice, RMul(atrValue, Rat(12, 10))),
               takeProfit |-> RAdd(entryPrice, RMul(atrValue, Num(2)))]
         ELSE [stopLoss   |-> RAdd(entryPrice, RMul(atrValue, Rat(12, 10))),
               takeProfit |-> RSub(entryPrice, RMul(atrValue, Num(2)))]
    ELSE IF side = "buy"
         THEN [stopLoss   |-> RMul(entryPrice, RSub(Num(1), bps(stopLossBps))),
               takeProfit |-> RMul(entryPrice, RAdd(Num(1), bps(takeProfitBps)))]
         ELSE [stopLoss   |-> RMul(entryPrice, RAdd(Num(1), bps(stopLossBps))),
               takeProfit |-> RMul(entryPrice, RSub(Num(1), bps(takeProfitBps)))]

detectRegime(atrPct, emaSlope, liquidityScore) ==
    [highVol  |-> RLt(Rat(2, 100), atrPct),
     trending |-> RLt(Rat(5, 10000), RAbs(emaSlope)),
     liquid   |-> RLt(Rat(1, 2), liquidityScore)]

\* f = p - (1 - p) / R in Number arithmetic: the subtraction cancels, so
\* the rounding of the quotient decides the sign of f near the break-even
\* probability.
kellyOf(p, R) ==
    RMax(Num(0), RMin(Rat(1, 4), FSub(p, FDiv(FSub(Num(1), p), R))))

kellyFraction(winProb, winLossRatio) ==
    kellyOf(RMax(Num(0), RMin(Num(1), Fl(winProb))),
            RMax(Literal(1, 100), Fl(winLossRatio)))

\* The products are exact: rounding a product changes neither its sign nor
\* whether it is 0.
positionSizeUsd(accountEquityUsd, confidence, atrPct, maxRiskPctPerTrade) ==
    RMul(RMul(RMul(accountEquityUsd,
                   RMin(maxRiskPctPerTrade, kellyFraction(confidence, Rat(3, 2)))),
              Num(5)),
         RMax(Rat(1, 4), RSub(Num(1), RDiv(atrPct, Rat(4, 100)))))

\* marketCircuitBreaker with the 1h threshold inclusive
marketCircuitBreaker_Inclusive(m) ==
    IF RLe(Num(8), RAbs(m.change1hPct)) THEN TRUE
    ELSE IF RLt(Rat(35, 10), RAbs(m.change5mPct)) THEN TRUE
    ELSE IF RLt(Rat(8, 10), RAbs(m.orderbookImbalance)) THEN TRUE
    ELSE IF m.volatilitySpike THEN TRUE
    ELSE IF m.correlationBreakdown THEN TRUE
    ELSE FALSE

marketCircuitBreaker(m) ==
    IF RLt(Num(8), RAbs(m.change1hPct)) THEN TRUE
    ELSE IF RLt(Rat(35, 10), RAbs(m.change5mPct)) THEN TRUE
    ELSE IF RLt(Rat(8, 10), RAbs(m.orderbookImbalance)) THEN TRUE
    ELSE IF m.volatilitySpike THEN TRUE
    ELSE IF m.correlationBreakdown THEN TRUE
    ELSE FALSE

\* returns.reduce((a, b) => a + b, 0)
RECURSIVE reduceSum(_, _)
reduceSum(returns, acc) ==
    IF returns = << >> THEN acc
    ELSE reduceSum(Tail(returns), FAdd(acc, Head(returns)))

\* returns.reduce((a, b) => a + b * b, 0)
RECURSIVE reduceSumSq(_, _)
reduceSumSq(returns, acc) ==
    IF returns = << >> THEN acc
    ELSE reduceSumSq(Tail(returns), FAdd(acc, FMul(Head(returns), Head(returns))))

\* returns1.reduce((acc, val, i) => acc + val * returns2[i], 0)
RECURSIVE reducePSum(_, _, _)
reducePSum(returns1, returns2, acc) ==
    IF returns1 = << >> THEN acc
    ELSE reducePSum(Tail(returns1), Tail(returns2),
                    FAdd(acc, FMul(Head(returns1), Head(returns2))))

\* den === 0 ? 0 : num / den
correlationRatio(num, den) ==
    IF den = Num(0) THEN Num(0) ELSE FDiv(num, den)

pearson(n, sum1, sum2, sum1Sq, sum2Sq, pSum) ==
    correlationRatio(
        FSub(pSum, FDiv(FMul(sum1, sum2), n)),
        FSqrt(FMul(FSub(sum1Sq, FDiv(FMul(sum1, sum1), n)),
                   FSub(sum2Sq, FDiv(FMul(sum2, sum2), n)))))

calculateCorrelation(returns1, returns2) ==
    IF Len(returns1) # Len(returns2) \/ Len(returns1) < 2
    THEN Num(0)
    ELSE pearson(Num(Len(returns1)),
                 reduceSum(returns1, Num(0)), reduceSum(returns2, Num(0)),
                 reduceSumSq(returns1, Num(0)), reduceSumSq(returns2, Num(0)),
                 reducePSum(returns1, returns2, Num(0)))

\* Math.abs
FAbs(x) ==
    IF IsNum(x) THEN RAbs(x) ELSE NaN

\* a > b; false when either side is NaN or undefined
FGt(a, b) ==
    IsNum(a) /\ IsNum(b) /\ RLt(b, a)

\* returns.slice(-k)
sliceLast(returns, k) ==
    IF Len(returns) <= k THEN returns
    ELSE SubSeq(returns, Len(returns) - k + 1, Len(returns))

\* the loop over symbol pairs i < j; a position carries its price history
RECURSIVE pairCorrelations(_, _, _, _)
pairCorrelations(portfolio, i, j, correlations) ==
    IF i > Len(portfolio) THEN correlations
    ELSE IF j > Len(portfolio) THEN pairCorrelations(portfolio, i + 1, i + 2, correlations)
    ELSE IF Len(portfolio[i].history) >= 10 /\ Len(portfolio[j].history) >= 10
    THEN pairCorrelations(portfolio, i, j + 1,
             Append(correlations,
                    FAbs(calculateCorrelation(sliceLast(portfolio[i].history, 20),
                                              sliceLast(portfolio[j].history, 20)))))
    ELSE pairCorrelations(portfolio, i, j + 1, correlations)

\* Math.max(a, b)
mathMax2(a, b) ==
    IF ~IsNum(a) \/ ~IsNum(b) THEN NaN ELSE RMax(a, b)

\* Math.max(...correlations) for a non-empty list
RECURSIVE mathMax(_, _)
mathMax(correlations, acc) ==
    IF correlations = << >> THEN acc
    ELSE mathMax(Tail(correlations), mathMax2(acc, Head(correlations)))

avgCorrelation(correlations) ==
    IF Len(correlations) > 0
    THEN FDiv(reduceSum(correlations, Num(0)), Num(Len(correlations)))
    ELSE Num(0)

maxCorrelation(correlations) ==
    IF Len(correlations) > 0
    THEN mathMax(Tail(correlations), Head(correlations))
    ELSE Num(0)

\* Math.abs(pos.notionalValue || 0)
absNotional(pos) ==
    FAbs(OrElse(pos.notionalValue, Num(0)))

RECURSIVE totalValue(_, _)
totalValue(portfolio, sum) ==
    IF portfolio = << >> THEN sum
    ELSE totalValue(Tail(portfolio), FAdd(sum, absNotional(Head(portfolio))))

\* a weight; a zero total is divided into a zero value only, giving NaN
weight(pos, total) ==
    IF total = Num(0) THEN NaN ELSE FDiv(absNotional(pos), total)

squared(w) ==
    FMul(w, w)

RECURSIVE riskConcentration(_, _, _)
riskConcentration(portfolio, total, sum) ==
    IF portfolio = << >> THEN sum
    ELSE riskConcentration(Tail(portfolio), total,
                           FAdd(sum, squared(weight(Head(portfolio), total))))

correlationReport(portfolio, correlations) ==
    [avgCorrelation |-> avgCorrelation(correlations),
     maxCorrelation |-> maxCorrelation(correlations),
     riskConcentration |-> riskConcentration(portfolio, totalValue(portfolio, Num(0)), Num(0))]

analyzePortfolioCorrelation(portfolio) ==
    IF Len(portfolio) < 2
    THEN [avgCorrelation |-> Num(0), maxCorrelation |-> Num(0), riskConcentration |-> Num(0)]
    ELSE correlationReport(portfolio, pairCorrelations(portfolio, 1, 2, << >>))

\* volatilityMetrics?.currentVol || 0 and volatilityMetrics?.avgVol || 0
volOf(x) ==
    OrElse(x, Num(0))

riskFlags(correlation, currentDrawdown, volatilityMetrics) ==
    [correlationBreakdown |-> FGt(correlation.maxCorrelation, Literal(8, 10)),
     concentrationRisk |-> FGt(correlation.riskConcentration, Literal(6, 10)),
     volatilitySpike |-> FGt(volOf(volatilityMetrics.currentVol),
                             FMul(volOf(volatilityMetrics.avgVol), Num(2))),
     drawdownLimit |-> FGt(currentDrawdown, Literal(8, 100))]

\* advancedRiskCheck with the drawdown flag left out of the verdict
haltVerdict_NoDrawdown(flags) ==
    flags.correlationBreakdown \/ flags.concentrationRisk \/ flags.volatilitySpike

haltVerdict(flags) ==
    \/ flags.correlationBreakdown
    \/ flags.concentrationRisk
    \/ flags.volatilitySpike
    \/ flags.drawdownLimit

riskVerdict(correlation, flags) ==
    [correlation |-> correlation, riskFlags |-> flags, shouldHalt |-> haltVerdict(flags)]

riskCheckOf(correlation, currentDrawdown, volatilityMetrics) ==
    riskVerdict(correlation, riskFlags(correlation, currentDrawdown, volatilityMetrics))

advancedRiskCheck(portfolio, currentDrawdown, volatilityMetrics) ==
    riskCheckOf(analyzePortfolioCorrelation(portfolio), currentDrawdown, volatilityMetrics)

(***************************************************************************)
(* Indicator library and technical signal analyzer                         *)
(* (src/strategies/technical_analyzer.js).  A candle snapshot carries, per *)
(* timeframe, the number of candles, the last close, and the value each    *)
(* indicator's arithmetic yields on it; the indicator operators apply the  *)
(* code's history guards to those values.                                  *)
(***************************************************************************)
macdSlow ==
    26

macdSignal ==
    9

ema(n, values, period) ==
    IF n < period THEN Null ELSE values

rsi(n, values, period) ==
    IF n < period + 1 THEN Null ELSE values

macd(n, values) ==
    IF n < macdSlow + macdSignal THEN Null ELSE values

bollinger(n, values, period) ==
    IF n < period
    THEN [ok |-> FALSE, upper |-> Null, lower |-> Null, middle |-> Null]
    ELSE [ok |-> TRUE, upper |-> values.upper, lower |-> values.lower, middle |-> values.middle]

atr(n, values, period) ==
    IF n < period + 1 THEN Null ELSE values

normalize(x, a, b) ==
    IF b = a THEN Num(0) ELSE RMax(Num(0), RMin(Num(1), RDiv(RSub(x, a), RSub(b, a))))

\* Number(x.toFixed(2))
toFixed2(x) ==
    Rat(Round(RMul(x, Num(100))), 100)

\* candles[candles.length - 1]?.close
lastOf(n, close) ==
    IF n = 0 THEN Null ELSE close

mrBias(bb5, last5, rsi5) ==
    IF bb5.ok /\ IsNum(last5)
    THEN IF RLt(bb5.upper, last5) /\ Truthy(rsi5) /\ RLt(Num(70), rsi5) THEN -1
         ELSE IF RLt(last5, bb5.lower) /\ Truthy(rsi5) /\ RLt(rsi5, Num(30)) THEN 1
         ELSE 0
    ELSE 0

macdHist(macd1) ==
    IF IsNum(macd1) THEN macd1 ELSE Num(0)

\* trendBias decided by the EMA ordering alone
trendBias_NoHistogram(ema9, ema21, ema50, hist) ==
    IF IsNum(ema9) /\ IsNum(ema21) /\ IsNum(ema50)
    THEN IF RLt(ema21, ema9) /\ RLt(ema50, ema21) THEN 1
         ELSE IF RLt(ema9, ema21) /\ RLt(ema21, ema50) THEN -1
         ELSE 0
    ELSE 0

trendBias(ema9, ema21, ema50, hist) ==
    IF IsNum(ema9) /\ IsNum(ema21) /\ IsNum(ema50)
    THEN IF RLt(ema21, ema9) /\ RLt(ema50, ema21) /\ RLt(Num(0), hist) THEN 1
         ELSE IF RLt(ema9, ema21) /\ RLt(ema21, ema50) /\ RLt(hist, Num(0)) THEN -1
         ELSE 0
    ELSE 0

volNorm(atr1, last1) ==
    normalize(OrElse(atr1, Num(0)), Num(0),
              IF Truthy(last1) THEN RMul(last1, Rat(3, 100)) ELSE Num(1))

\* mrBias * mrWeight + trendBias * trendWeight
blendBias(mr, trend, vol) ==
    RAdd(RMul(Num(mr), RMul(Rat(45, 100), RSub(Num(1), vol))),
         RMul(Num(trend), RMul(Rat(55, 100), RAdd(Rat(1, 2), RDiv(vol, Num(2))))))

techSignal(c, mr, trend, bias) ==
    [action |-> IF RLt(Rat(1, 10), bias) THEN "BUY"
                ELSE IF RLt(bias, Rat(-1, 10)) THEN "SELL"
                ELSE "HOLD",
     confidence |-> toFixed2(RMin(Rat(99, 100), RAbs(bias))),
     mrBias |-> mr,
     trendBias |-> trend,
     atr1 |-> atr(c.n1, c.atr1, 14),
     ema9 |-> ema(c.n1, c.ema9, 9),
     ema21 |-> ema(c.n1, c.ema21, 21),
     ema50 |-> ema(c.n1, c.ema50, 50)]

analyzeBiases(c, mr, trend) ==
    techSignal(c, mr, trend,
               blendBias(mr, trend, volNorm(atr(c.n1, c.atr1, 14), lastOf(c.n1, c.last1))))

analyzeMultiTimeframe(c) ==
    analyzeBiases(c,
                  mrBias(bollinger(c.n5, c.bb5, 20), lastOf(c.n5, c.last5),
                         rsi(c.n5, c.rsi5, 14)),
                  trendBias(ema(c.n1, c.ema9, 9), ema(c.n1, c.ema21, 21),
                            ema(c.n1, c.ema50, 50), macdHist(macd(c.n1, c.macdHist1))))

(***************************************************************************)
(* Decision engine (src/ai/decision_engine.js)                             *)
(***************************************************************************)
RECURSIVE filterStrategy(_, _)
filterStrategy(recentTrades, keys) ==
    IF recentTrades = << >>
    THEN << >>
    ELSE IF Head(recentTrades).strategy \in keys
         THEN << Head(recentTrades) >> \o filterStrategy(Tail(recentTrades), keys)
         ELSE filterStrategy(Tail(recentTrades), keys)

RECURSIVE countWins(_)
countWins(arr) ==
    IF arr = << >> THEN 0
    ELSE (IF Head(arr).success THEN 1 ELSE 0) + countWins(Tail(arr))

RECURSIVE sumRr(_)
sumRr(arr) ==
    IF arr = << >> THEN Num(0)
    ELSE RAdd(Head(arr).rr, sumRr(Tail(arr)))

perfScore(arr) ==
    IF Len(arr) = 0
    THEN Rat(1, 2)
    ELSE RMax(Num(0), RMin(Num(1),
              RAdd(RMul(Rat(6, 10), Rat(countWins(arr), Len(arr))),
                   RMul(Rat(4, 10), Tanh(RDiv(sumRr(arr), Num(Len(arr))))))))

perfShares(techScore, sentScore, sum) ==
    [tech |-> RDiv(techScore, sum), sentiment |-> RDiv(sentScore, sum)]

perfNormalize(techScore, sentScore) ==
    perfShares(techScore, sentScore, OrElse(RAdd(techScore, sentScore), Num(1)))

computePerfWeights(recentTrades) ==
    perfNormalize(perfScore(filterStrategy(recentTrades, {"tech", "technical"})),
                  perfScore(filterStrategy(recentTrades, {"sentiment"})))

\* A reply text: absent content, or text whose first "{" and last "}" form
\* a pair or not ("none", "reversed", "pair"), whose slice parses as JSON or
\* not, and the object it parses to.
extractJson(text) ==
    IF ~text.present THEN [ok |-> FALSE, obj |-> text.obj]
    ELSE IF text.braces # "pair" THEN [ok |-> FALSE, obj |-> text.obj]
    ELSE IF text.parses THEN [ok |-> TRUE, obj |-> text.obj]
    ELSE [ok |-> FALSE, obj |-> text.obj]

\* A JSON field: a number, Null when absent, or NonNumeric (a string that
\* is no number: truthy, and NaN under Number()).
NonNumeric ==
    << 2, 0 >>

fieldOr(a, b) ==
    IF a = NonNumeric \/ Truthy(a) THEN a ELSE b

toNumber(x) ==
    IF IsNum(x) THEN x ELSE NaN

\* Math.max(lo, Math.min(hi, x)), NaN when x is NaN
clampNumber(lo, hi, x) ==
    IF IsNum(x) THEN RMax(lo, RMin(hi, x)) ELSE NaN

toUpperCase(str) ==
    CASE str = "buy"   -> "BUY"
      [] str = "sell"  -> "SELL"
      [] str = "hold"  -> "HOLD"
      [] str = "maybe" -> "MAYBE"
      [] OTHER         -> str

toLowerCase(str) ==
    CASE str = "BUY"   -> "buy"
      [] str = "SELL"  -> "sell"
      [] str = "HOLD"  -> "hold"
      [] str = "MAYBE" -> "maybe"
      [] str = "FALSE" -> "false"
      [] str = "False" -> "false"
      [] str = "TRUE"  -> "true"
      [] OTHER         -> str

\* null, and the {raw: text} record, which has no action field
noDecision(kind) ==
    [kind |-> kind, action |-> "", confidence |-> Null, positionSizePct |-> Null]

\* sanitizeDecision's confidence without the clamp to [0, 1]
sanitizeConfidence_NoClamp(obj) ==
    toNumber(fieldOr(obj.confidence, fieldOr(obj.CONFIDENCE, Num(0))))

sanitizeConfidence(obj) ==
    clampNumber(Num(0), Num(1), toNumber(fieldOr(obj.confidence, fieldOr(obj.CONFIDENCE, Num(0)))))

sanitizeAction(actionRaw) ==
    IF actionRaw \in {"BUY", "SELL", "HOLD"} THEN actionRaw ELSE "HOLD"

sanitizeObject(obj) ==
    [kind |-> "decision",
     action |-> sanitizeAction(toUpperCase(IF obj.action # "" THEN obj.action
                                           ELSE obj.DECISION)),
     confidence |-> sanitizeConfidence(obj),
     positionSizePct |->
         clampNumber(Num(0), Num(100), toNumber(fieldOr(obj.position_size, Num(0))))]

sanitizeDecision(parsed) ==
    IF ~parsed.ok THEN noDecision("null") ELSE sanitizeObject(parsed.obj)

\* sanitizeDecision(parsed) || { raw: text }
orRaw(d) ==
    IF d.kind = "null" THEN noDecision("raw") ELSE d

\* The advisory call: null when disabled or when the request fails (network
\* failure, timeout, error status), else the sanitized reply or {raw: text}.
consultDeepSeek(reply) ==
    IF ~reply.apiKey \/ ~reply.use
    THEN noDecision("null")
    ELSE IF reply.fails
    THEN noDecision("null")
    ELSE orRaw(sanitizeDecision(extractJson(reply.text)))

\* x === 'BUY' ? 1 : x === 'SELL' ? -1 : 0
biasOf(action) ==
    IF action = "BUY" THEN 1 ELSE IF action = "SELL" THEN -1 ELSE 0

gateAndSignals(inp) ==
    [halt |-> shouldHaltTrading(Num(0), Num(0),
                  marketCircuitBreaker(
                      [change1hPct |-> Num(0), change5mPct |-> Num(0),
                       orderbookImbalance |-> Num(0),
                       volatilitySpike |-> FALSE, correlationBreakdown |-> FALSE])),
     tech |-> analyzeMultiTimeframe(inp.candles),
     lastClose |-> IF inp.candles.n1 = 0 THEN Num(0)
                   ELSE OrElse(inp.candles.last1, Num(0))]

withSentiment(inp, s) ==
    s @@ [sentiment |-> fuseSentiment(inp.events, s.lastClose),
          atr1 |-> OrElse(s.tech.atr1, Num(0))]

withAtrPct(s) ==
    s @@ [atrPct |-> IF Truthy(s.atr1) /\ Truthy(s.lastClose)
                     THEN RDiv(s.atr1, s.lastClose) ELSE Num(0)]

withRegime(inp, s) ==
    s @@ [regime |->
              detectRegime(s.atrPct,
                           RDiv(RSub(OrElse(s.tech.ema9, s.lastClose),
                                     OrElse(s.tech.ema21, s.lastClose)),
                                RMax(Num(1), s.lastClose)),
                           IF inp.events.market.hasOrderbook THEN Rat(6, 10)
                           ELSE Rat(5, 10))]

blendWeight(base, perf) ==
    RMin(Rat(8, 10), RMax(Rat(2, 10), RAdd(RMul(Rat(1, 2), base), RMul(Rat(1, 2), perf))))

blendWeights(s, baseTechWeight, perfW) ==
    s @@ [techWeight |-> blendWeight(baseTechWeight, perfW.tech),
          sentWeight |-> blendWeight(RSub(Num(1), baseTechWeight), perfW.sentiment)]

withWeights(inp, s) ==
    blendWeights(s, IF s.regime.trending THEN Rat(65, 100) ELSE Rat(45, 100),
                 computePerfWeights(inp.recentTrades))

withBiases(s) ==
    s @@ [norm |-> OrElse(RAdd(s.techWeight, s.sentWeight), Num(1)),
          techBias |-> biasOf(s.tech.action),
          sentimentBias |-> Rat(s.sentiment.score - 50, 50)]

withFused(s) ==
    s @@ [fused |-> RAdd(RMul(RMul(Num(s.techBias), OrElse(s.tech.confidence, Rat(1, 2))),
                              RDiv(s.techWeight, s.norm)),
                         RMul(s.sentimentBias, RDiv(s.sentWeight, s.norm))),
          conflict |-> \/ (s.techBias > 0 /\ RLt(s.sentimentBias, Rat(-1, 4)))
                       \/ (s.techBias < 0 /\ RLt(Rat(1, 4), s.sentimentBias))]

withConfidence(s) ==
    s @@ [confidence |-> RMin(Rat(99, 100), RAbs(s.fused))]

\* conflict resolution that only ever forces hold
withAction_NoDeferral(s) ==
    s @@ [action |->
              IF s.conflict /\ RLt(s.confidence, Rat(1, 4)) THEN "hold"
              ELSE IF RLt(Rat(1, 10), s.fused) THEN "buy"
              ELSE IF RLt(s.fused, Rat(-1, 10)) THEN "sell"
              ELSE "hold"]

withAction(s) ==
    s @@ [action |->
              IF s.conflict /\ RLt(s.confidence, Rat(1, 4)) THEN "hold"
              ELSE IF s.conflict /\ RLe(Rat(1, 4), s.confidence)
              THEN IF s.regime.trending
                   THEN (IF s.techBias > 0 THEN "buy" ELSE "sell")
                   ELSE (IF RLt(Num(0), s.sentimentBias) THEN "buy" ELSE "sell")
              ELSE IF RLt(Rat(1, 10), s.fused) THEN "buy"
              ELSE IF RLt(s.fused, Rat(-1, 10)) THEN "sell"
              ELSE "hold"]

withEquity(inp, s) ==
    s @@ [accountEquityUsd |-> OrElse(inp.positions.equityUsd, Num(10000))]

withSize(s) ==
    s @@ [sizeUsd |-> capOrderSizeUsd(positionSizeUsd(s.accountEquityUsd, s.confidence,
                                                      s.atrPct, Rat(2, 100)))]

\* decideTrade up to the advisory call: gate, signals, fusion, conflict
\* resolution and sizing.
decideLocal(inp) ==
    withSize(withEquity(inp, withAction(withConfidence(withFused(withBiases(
        withWeights(inp, withRegime(inp, withAtrPct(withSentiment(inp,
            gateAndSignals(inp)))))))))))

aligns(action, llmBias) ==
    \/ (action = "buy" /\ llmBias > 0)
    \/ (action = "sell" /\ llmBias < 0)
    \/ (action = "hold" /\ llmBias = 0)

\* llmConf >= confidence - 0.1
confOk(confidence, llmConf) ==
    RLe(RSub(confidence, Rat(1, 10)), llmConf)

\* llmAccepted with the 0.2 margin of the confidence override dropped
llmAccepted_NoMargin(loc, llm) ==
    /\ llm.kind = "decision"
    /\ \/ (aligns(loc.action, biasOf(llm.action))
            /\ confOk(loc.confidence, OrElse(llm.confidence, Num(0))))
       \/ RLt(loc.confidence, OrElse(llm.confidence, Num(0)))

\* llmDecision && llmDecision.action, and the acceptance test of the reply
llmAccepted(loc, llm) ==
    /\ llm.kind = "decision"
    /\ \/ (aligns(loc.action, biasOf(llm.action))
            /\ confOk(loc.confidence, OrElse(llm.confidence, Num(0))))
       \/ RLt(RAdd(loc.confidence, Rat(2, 10)), OrElse(llm.confidence, Num(0)))

\* The reassignment `sizeUsd = Math.min(sizeUsd, sized)` of the const
\* binding sizeUsd is reached: it throws a TypeError.
assignsConstSizeUsd(loc, llm) ==
    /\ llmAccepted(loc, llm)
    /\ Truthy(llm.positionSizePct)
    /\ RLt(Num(0), capOrderSizeUsd(RMul(loc.accountEquityUsd,
                                        RDiv(llm.positionSizePct, Num(100)))))

NoStops ==
    [stopLoss |-> Null, takeProfit |-> Null]

NoRecord ==
    [action |-> "", reason |-> "", confidence |-> Null, sizeUsd |-> Null,
     stops |-> NoStops, llmDecision |-> noDecision("null")]

\* return { action: 'hold', reason: 'risk_halt' }
haltRecord ==
    [outcome |-> "returned",
     decision |-> [NoRecord EXCEPT !.action = "hold", !.reason = "risk_halt"]]

returned(loc, llm, action, confidence) ==
    [outcome |-> "returned",
     decision |-> [action |-> action, reason |-> "", confidence |-> confidence,
                   sizeUsd |-> loc.sizeUsd,
                   stops |-> computeStops(OrElse(loc.lastClose, Num(0)),
                                          IF action = "sell" THEN "sell" ELSE "buy",
                                          loc.atr1),
                   llmDecision |-> llm]]

applyAdvisory(loc, llm, accepted) ==
    returned(loc, llm,
             IF accepted THEN toLowerCase(llm.action) ELSE loc.action,
             IF accepted THEN RMax(loc.confidence, OrElse(llm.confidence, Num(0)))
             ELSE loc.confidence)

\* decideTrade from the advisory reply to the returned record, or the throw.
decideFinal(loc, llm) ==
    IF assignsConstSizeUsd(loc, llm)
    THEN [outcome |-> "threw", decision |-> NoRecord]
    ELSE applyAdvisory(loc, llm, llmAccepted(loc, llm))

(***************************************************************************)
(* Inputs of a decision cycle                                              *)
(***************************************************************************)
MaxTrades ==
    2

BB(lower, middle, upper) ==
    [lower |-> Num(lower), middle |-> Num(middle), upper |-> Num(upper)]

Candles(n5, n1, last5, last1, rsi5, e9, e21, e50, hist, atr1) ==
    [n5 |-> n5, n1 |-> n1, last5 |-> Num(last5), last1 |-> Num(last1),
     rsi5 |-> Num(rsi5), bb5 |-> BB(92, 100, 108),
     ema9 |-> Num(e9), ema21 |-> Num(e21), ema50 |-> Num(e50),
     macdHist1 |-> hist, atr1 |-> Num(atr1)]

CandleSnapshots ==
    { Candles(0, 0, 0, 0, 0, 0, 0, 0, Num(0), 0),                   \* no candles
      Candles(10, 10, 100, 100, 50, 102, 101, 100, Rat(1, 2), 1),   \* short history
      Candles(120, 240, 100, 100, 50, 102, 101, 100, Rat(1, 2), 1), \* up-trend
      Candles(120, 240, 100, 100, 50, 98, 99, 100, Rat(-1, 2), 1),  \* down-trend
      Candles(120, 240, 90, 100, 20, 100, 100, 100, Num(0), 0),     \* oversold, flat 1h
      Candles(120, 240, 110, 100, 80, 100, 100, 100, Num(0), 0) }   \* overbought, flat 1h

Social(tw, tg, tr, nw) ==
    [twitterScore |-> tw, telegramScore |-> tg, trendsScore |-> tr, newsScore |-> nw]

OnChain(whale, flow, gas, addr) ==
    [whaleNetMUsd |-> whale, exchangeNetflow |-> flow,
     gasPriceGwei |-> gas, activeAddrsDelta |-> addr]

Market(supports, resistances, clusters, imbalance, bid, ask) ==
    [supports |-> supports, resistances |-> resistances, liquidationClusters |-> clusters,
     hasOrderbook |-> TRUE,
     orderbook |-> [imbalance |-> imbalance, bidDepth |-> bid, askDepth |-> ask]]

Events(social, onchain, market) ==
    [social |-> social, onchain |-> onchain, market |-> market]

EventSets ==
    { Events(NoSocial, NoOnChain, NoMarket),
      Events(NoSocial, OnChain(Num(0), Num(0), Num(20), Num(0)), NoMarket),
      Events(Social(Num(1), Num(1), Num(1), Num(1)),
             OnChain(Num(2), Num(-1), Num(20), Num(1)),
             Market(<< Num(99) >>, << Num(110) >>, << >>, Rat(1, 2), Num(3), Num(1))),
      Events(Social(Num(-1), Num(-1), Num(-1), Num(-1)),
             OnChain(Num(-2), Num(1), Num(0), Num(-1)),
             Market(<< Num(90) >>, << Num(101) >>,
                    << [price |-> Num(105), sizeM |-> Num(2)],
                       [price |-> Num(95), sizeM |-> Num(1)] >>,
                    Rat(-9, 10), Num(1), Num(3))),
      Events(Social(Num(3), Num(1), Num(1), Num(1)),
             OnChain(Num(50), Num(-5), Num(500), Num(4)),
             Market(<< Num(100) >>, << >>, << [price |-> Num(95), sizeM |-> Num(40)] >>,
                    Num(3), Num(1000), Num(0))),
      Events(Social(Num(-3), Num(-1), Num(-1), Num(-1)),
             OnChain(Num(-50), Num(5), Num(0), Num(-4)),
             Market(<< >>, << Num(100) >>, << [price |-> Num(105), sizeM |-> Num(40)] >>,
                    Num(-3), Num(0), Num(1000))),
      Events(Social(Rat(1, 2), Num(0), Rat(-1, 2), Num(1)), NoOnChain,
             Market(<< >>, << >>, << >>, Rat(1, 5), Num(2), Num(2))) }

\* positions.equityUsd: absent, or an amount
Equities ==
    { Null, Num(2000), Num(100000) }

TradeKinds ==
    { [strategy |-> "tech", success |-> TRUE, rr |-> Num(2)],
      [strategy |-> "sentiment", success |-> FALSE, rr |-> Num(-1)] }

TradeHistories ==
    UNION { [1..n -> TradeKinds] : n \in 0..MaxTrades }

\* The market/account state of the cycle that the risk gate is about.
RiskStates ==
    { [change1hPct |-> Num(0), change5mPct |-> Num(0), realizedPnlTodayUsd |-> Num(0),
       drawdownFromPeakPct |-> Num(0)],
      [change1hPct |-> Num(-9), change5mPct |-> Num(0), realizedPnlTodayUsd |-> Num(-1000),
       drawdownFromPeakPct |-> Num(0)] }

Obj(action, decision, confidence, conf2, size) ==
    [action |-> action, DECISION |-> decision, confidence |-> confidence,
     CONFIDENCE |-> conf2, position_size |-> size]

NoObj ==
    Obj("", "", Null, Null, Null)

AdvisoryObjects ==
    { Obj(a, "", c, Null, z) :
          a \in {"BUY", "SELL", "HOLD", "MAYBE"},
          c \in {Null, Rat(3, 10), Rat(9, 10), Rat(3, 2), NonNumeric},
          z \in {Null, Num(5)} }
    \cup { Obj("", "buy", Null, Rat(3, 2), Num(250)), NoObj }

Reply(apiKey, use, fails, present, braces, parses, obj) ==
    [apiKey |-> apiKey, use |-> use, fails |-> fails,
     text |-> [present |-> present, braces |-> braces, parses |-> parses, obj |-> obj]]

Advisories ==
    { Reply(FALSE, TRUE, FALSE, FALSE, "none", FALSE, NoObj),     \* no API key
      Reply(TRUE, FALSE, FALSE, FALSE, "none", FALSE, NoObj),     \* USE_DEEPSEEK unset
      Reply(TRUE, TRUE, TRUE, FALSE, "none", FALSE, NoObj),       \* request fails
      Reply(TRUE, TRUE, FALSE, FALSE, "none", FALSE, NoObj),      \* no content
      Reply(TRUE, TRUE, FALSE, TRUE, "none", FALSE, NoObj),       \* prose
      Reply(TRUE, TRUE, FALSE, TRUE, "reversed", FALSE, NoObj),   \* "} ... {"
      Reply(TRUE, TRUE, FALSE, TRUE, "pair", FALSE, NoObj) }      \* broken JSON
    \cup { Reply(TRUE, TRUE, FALSE, TRUE, "pair", TRUE, o) : o \in AdvisoryObjects }

Inputs ==
    [candles : CandleSnapshots, events : EventSets, positions : [equityUsd : Equities],
     recentTrades : TradeHistories, risk : RiskStates]

(***************************************************************************)
(* The decision cycle as a state machine                                   *)
(***************************************************************************)
\* options.reconnectBaseMs || 1000
reconnectBaseMs ==
    1000

\* options.reconnectMaxMs || 15000
reconnectMaxMs ==
    15000

\* options.initialBalance || 10000
initialBalance ==
    10000

\* options.fees || 0.001
fees ==
    Rat(1, 1000)

\* no executeTrade call has been made
NoExecution ==
    [symbol |-> "", action |-> "", sizeUsd |-> Num(0), price |-> Num(0)]

VARIABLES pc, input, local, advisory, result, sentIn, sentOut, call, ret

\* The trading loop around decideTrade: process.env, the symbol being
\* decided, the estimated quantity, and the orders handed to api.placeOrder
\* by the running cycle.
VARIABLES env, symbol, qty, orders

loopVars == << env, symbol, qty, orders >>

\* AsterWebSocket: its fields _shouldReconnect, _backoff and _heartbeat (an
\* interval is running), the WebSocket objects it has created with their
\* readyState (the last one is _socket), the delays of the pending
\* reconnect timers, whether disconnect() has been called, and the number
\* of pings sent.
VARIABLES shouldReconnect, backoff, heartbeat, sockets, timers, disconnected, pings

wsVars == << shouldReconnect, backoff, heartbeat, sockets, timers, disconnected, pings >>

\* AsterApiClient and one request through its axios instance:
\* options.maxRetries, the request's position, config._retryCount, the
\* number of times it has been sent, the status of the last failed
\* response (null without a response) and the wait before the re-send.
VARIABLES maxRetries, request, retryCount, attempts, status, waitMs

apiVars == << maxRetries, request, retryCount, attempts, status, waitMs >>

\* TradingSimulator: its cash balance, the positions map (held symbols
\* only), the trade list, and the arguments and the result of the last
\* executeTrade call.
VARIABLES balance, positions, trades, executing, executed

simVars == << balance, positions, trades, executing, executed >>

serviceVars == << wsVars, apiVars, simVars >>

restVars == << loopVars, serviceVars >>

cycleVars == << pc, input, local, advisory, result >>

sentVars == << sentIn, sentOut >>

callVars == << call, ret >>

vars == << pc, input, local, advisory, result, sentIn, sentOut, call, ret, restVars >>

\* Between cycles: the empty snapshot and what it computes to.
NoInput ==
    [candles |-> Candles(0, 0, 0, 0, 0, 0, 0, 0, Num(0), 0),
     events |-> Events(NoSocial, NoOnChain, NoMarket),
     positions |-> [equityUsd |-> Null],
     recentTrades |-> << >>,
     risk |-> [change1hPct |-> Num(0), change5mPct |-> Num(0),
               realizedPnlTodayUsd |-> Num(0), drawdownFromPeakPct |-> Num(0)]]

NoAdvisory ==
    Reply(FALSE, FALSE, FALSE, FALSE, "none", FALSE, NoObj)

NoLocal ==
    decideLocal(NoInput)

NoResult ==
    [outcome |-> "none", decision |-> NoRecord]

NoSentIn ==
    [events |-> Events(NoSocial, NoOnChain, NoMarket), lastPrice |-> Num(0)]

NoSentOut ==
    fuseSentiment(NoSentIn.events, NoSentIn.lastPrice)

\* No library function is being called.
NoCall ==
    [fn |-> "none"]

\* process.env without DRY_RUN and ASTER_VENDOR
NoEnv ==
    [DRY_RUN |-> "", ASTER_VENDOR |-> ""]

Init ==
    /\ pc = "idle"
    /\ input = NoInput
    /\ local = NoLocal
    /\ advisory = NoAdvisory
    /\ result = NoResult
    /\ sentIn = NoSentIn
    /\ sentOut = NoSentOut
    /\ call = NoCall
    /\ ret = NoCall
    /\ env = NoEnv
    /\ symbol = ""
    /\ qty = Null
    /\ orders = << >>
    /\ shouldReconnect = TRUE
    /\ backoff = reconnectBaseMs
    /\ heartbeat = FALSE
    /\ sockets = << >>
    /\ timers = << >>
    /\ disconnected = FALSE
    /\ pings = 0
    /\ maxRetries = Null
    /\ request = "none"
    /\ retryCount = 0
    /\ attempts = 0
    /\ status = Null
    /\ waitMs = 0
    /\ balance = Num(initialBalance)
    /\ positions = << >>
    /\ trades = << >>
    /\ executing = NoExecution
    /\ executed = "none"

\* the cycle's state once decideTrade has computed loc from inp
StartWith(inp, loc) ==
    /\ input' = inp
    /\ local' = loc
    /\ pc' = IF loc.halt THEN "done" ELSE "awaiting"
    /\ result' = IF loc.halt THEN haltRecord ELSE NoResult

\* decideTrade is called: everything up to `await consultDeepSeek(...)`,
\* or the early return of the risk gate.
StartCycle ==
    /\ pc = "idle"
    /\ \E inp \in Inputs : StartWith(inp, decideLocal(inp))
    /\ UNCHANGED << advisory, sentIn, sentOut, call, ret, restVars >>

\* The advisory call settles and decideTrade runs to its return or throw.
AdvisorySettles ==
    /\ pc = "awaiting"
    /\ \E adv \in Advisories :
          /\ advisory' = adv
          /\ result' = decideFinal(local, consultDeepSeek(adv))
    /\ pc' = "done"
    /\ UNCHANGED << input, local, sentIn, sentOut, call, ret, restVars >>

\* The caller takes the result; the next cycle starts from fresh snapshots.
NextCycle ==
    /\ pc = "done"
    /\ pc' = "idle"
    /\ input' = NoInput
    /\ local' = NoLocal
    /\ advisory' = NoAdvisory
    /\ result' = NoResult
    /\ UNCHANGED << sentIn, sentOut, call, ret, restVars >>

Next ==
    \/ StartCycle
    \/ AdvisorySettles
    \/ NextCycle

Spec ==
    Init /\ [][Next]_vars

(***************************************************************************)
(* fuseSentiment as a pure function, applied to inputs from a wider grid   *)
(***************************************************************************)
SocialGrid ==
    { Social(tw, tg, tr, nw) :
          tw \in {Num(-3), Num(-1), Rat(-1, 2), Num(0), Rat(1, 2), Num(1), Num(3)},
          tg \in {Num(-1), Num(0), Num(1)},
          tr \in {Num(-1), Num(0), Num(1)},
          nw \in {Num(-1), Num(0), Num(1)} }

OnChainGrid ==
    { e.onchain : e \in EventSets }

MarketGrid ==
    { e.market : e \in EventSets }

SentimentInputs ==
    [events : [social : SocialGrid, onchain : OnChainGrid, market : MarketGrid],
     lastPrice : {Num(0), Num(100)}]

\* fuseSentiment is called on a fresh snapshot.
ApplyFuseSentiment ==
    /\ sentIn = NoSentIn
    /\ \E i \in SentimentInputs :
          /\ sentIn' = i
          /\ sentOut' = fuseSentiment(i.events, i.lastPrice)
    /\ UNCHANGED << cycleVars, callVars, restVars >>

\* The result is consumed.
DropSentiment ==
    /\ sentIn # NoSentIn
    /\ sentIn' = NoSentIn
    /\ sentOut' = NoSentOut
    /\ UNCHANGED << cycleVars, callVars, restVars >>

NextSentiment ==
    \/ ApplyFuseSentiment
    \/ DropSentiment

SpecSentiment ==
    Init /\ [][NextSentiment]_vars

(***************************************************************************)
(* The risk manager's functions as pure functions, each applied to inputs  *)
(* from a grid around its thresholds                                       *)
(***************************************************************************)
\* a destructuring default: it replaces an absent (undefined) field
defaultTo(x, d) ==
    IF x = Null THEN d ELSE x

HaltInputs ==
    [fn : {"shouldHaltTrading"},
     realizedPnlTodayUsd : {Num(-2000), Num(-1001), Num(-1000), Num(-999), Num(0), Num(500)},
     drawdownFromPeakPct : {Null, Num(5), Rat(999, 100), Num(10), Num(15)},
     circuitBreaker : BOOLEAN]

ApplyShouldHaltTrading ==
    /\ call = NoCall
    /\ \E i \in HaltInputs :
          /\ call' = i
          /\ ret' = [fn |-> i.fn,
                     value |-> shouldHaltTrading(i.realizedPnlTodayUsd,
                                                 defaultTo(i.drawdownFromPeakPct, Num(0)),
                                                 i.circuitBreaker)]
    /\ UNCHANGED << cycleVars, sentVars, restVars >>

BreakerInputs ==
    [fn : {"marketCircuitBreaker"},
     change1hPct : {Null, Num(-9), Num(-8), Num(8), Rat(801, 100)},
     change5mPct : {Null, Num(-4), Rat(7, 2), Rat(351, 100)},
     orderbookImbalance : {Null, Rat(-9, 10), Rat(4, 5), Rat(81, 100)},
     volatilitySpike : BOOLEAN,
     correlationBreakdown : BOOLEAN]

\* the parameter destructuring of marketCircuitBreaker; an absent flag
\* reads as false
breakerArgs(m) ==
    [change1hPct |-> defaultTo(m.change1hPct, Num(0)),
     change5mPct |-> defaultTo(m.change5mPct, Num(0)),
     orderbookImbalance |-> defaultTo(m.orderbookImbalance, Num(0)),
     volatilitySpike |-> m.volatilitySpike,
     correlationBreakdown |-> m.correlationBreakdown]

ApplyMarketCircuitBreaker ==
    /\ call = NoCall
    /\ \E i \in BreakerInputs :
          /\ call' = i
          /\ ret' = [fn |-> i.fn, value |-> marketCircuitBreaker(breakerArgs(i))]
    /\ UNCHANGED << cycleVars, sentVars, restVars >>

KellyInputs ==
    [fn : {"kellyFraction"},
     winProb : {Rat(-1, 2), Num(0), Rat(1, 2), Rat(3, 5), Rat(99, 100), Rat(199, 200),
                Num(1), Rat(3, 2)},
     winLossRatio : {Num(-1), Num(0), Rat(1, 1000), Rat(1, 100), Rat(1, 2), Num(1),
                     Rat(3, 2), Num(3)}]

ApplyKellyFraction ==
    /\ call = NoCall
    /\ \E i \in KellyInputs :
          /\ call' = i
          /\ ret' = [fn |-> i.fn, value |-> kellyFraction(i.winProb, i.winLossRatio)]
    /\ UNCHANGED << cycleVars, sentVars, restVars >>

CapInputs ==
    {Num(-100), Rat(-1, 2), Num(0), Rat(1, 2), Num(1), Num(4999), Rat(9999, 2),
     Num(maxPositionUsd), Rat(10001, 2), Num(maxPositionUsd + 1), Num(1000000)}

ApplyCapOrderSizeUsd ==
    /\ call = NoCall
    /\ \E x \in CapInputs :
          /\ call' = [fn |-> "capOrderSizeUsd", desiredUsd |-> x, origin |-> Null]
          /\ ret' = [fn |-> "capOrderSizeUsd", value |-> capOrderSizeUsd(x)]
    /\ UNCHANGED << cycleVars, sentVars, restVars >>

\* The function is applied to its own result; origin keeps the first argument.
ReapplyCapOrderSizeUsd ==
    /\ call.fn = "capOrderSizeUsd"
    /\ call.origin = Null
    /\ call' = [fn |-> "capOrderSizeUsd", desiredUsd |-> ret.value,
                origin |-> call.desiredUsd]
    /\ ret' = [fn |-> "capOrderSizeUsd", value |-> capOrderSizeUsd(ret.value)]
    /\ UNCHANGED << cycleVars, sentVars, restVars >>

\* The result is consumed.
DropCall ==
    /\ call # NoCall
    /\ call' = NoCall
    /\ ret' = NoCall
    /\ UNCHANGED << cycleVars, sentVars, restVars >>

NextRisk ==
    \/ ApplyShouldHaltTrading
    \/ ApplyMarketCircuitBreaker
    \/ ApplyKellyFraction
    \/ ApplyCapOrderSizeUsd
    \/ ReapplyCapOrderSizeUsd
    \/ DropCall

SpecRisk ==
    Init /\ [][NextRisk]_vars

(***************************************************************************)
(* Portfolio correlation analysis, in rounded arithmetic                   *)
(***************************************************************************)
ReturnValues ==
    {Literal(11, 10), Literal(12, 10), Literal(15, 10)}

SeriesLen ==
    3

ReturnSeries ==
    UNION {[1..n -> ReturnValues] : n \in 0..SeriesLen}

ApplyCalculateCorrelation ==
    /\ call = NoCall
    /\ \E r1 \in ReturnSeries, r2 \in ReturnSeries :
          /\ call' = [fn |-> "calculateCorrelation", returns1 |-> r1, returns2 |-> r2]
          /\ ret' = [fn |-> "calculateCorrelation", value |-> calculateCorrelation(r1, r2)]
    /\ UNCHANGED << cycleVars, sentVars, restVars >>

\* a history of n points repeating a pattern
Cycle(pattern, n) ==
    [i \in 1..n |-> pattern[((i - 1) % Len(pattern)) + 1]]

Rising ==
    << Literal(11, 10), Literal(12, 10), Literal(15, 10) >>

Mixed ==
    << Literal(15, 10), Literal(11, 10), Literal(11, 10), Literal(12, 10) >>

\* held positions: a notional value (possibly absent) and the symbol's
\* price history (empty when priceHistory has no entry): 9 points, 10
\* points, the same 10 points preceded by 2 older ones, a constant
\* history, and 21 points
PositionKinds ==
    {[notionalValue |-> Num(1000), history |-> Cycle(Rising, 10)],
     [notionalValue |-> Num(4000), history |-> << Literal(15, 10), Literal(11, 10) >> \o Cycle(Rising, 10)],
     [notionalValue |-> Null, history |-> Cycle(Mixed, 9)],
     [notionalValue |-> Num(-2000), history |-> Cycle(Mixed, 21)],
     [notionalValue |-> Num(0), history |-> Cycle(<< Literal(11, 10) >>, 10)]}

MaxSymbols ==
    3

Portfolios(n) ==
    UNION {[1..k -> PositionKinds] : k \in 0..n}

ApplyAnalyzePortfolioCorrelation ==
    /\ call = NoCall
    /\ \E p \in Portfolios(MaxSymbols) :
          /\ call' = [fn |-> "analyzePortfolioCorrelation", positions |-> p]
          /\ ret' = [fn |-> "analyzePortfolioCorrelation",
                     value |-> analyzePortfolioCorrelation(p)]
    /\ UNCHANGED << cycleVars, sentVars, restVars >>

Drawdowns ==
    {Null, Num(0), Literal(8, 100), Literal(9, 100)}

\* volatilityMetrics; absent fields (or an absent object) read as undefined
VolatilityMetrics ==
    {[currentVol |-> Null, avgVol |-> Null],
     [currentVol |-> Num(2), avgVol |-> Num(1)],
     [currentVol |-> Num(3), avgVol |-> Num(1)],
     [currentVol |-> Num(1), avgVol |-> Null]}

ApplyAdvancedRiskCheck ==
    /\ call = NoCall
    /\ \E p \in Portfolios(2), d \in Drawdowns, v \in VolatilityMetrics :
          /\ call' = [fn |-> "advancedRiskCheck", positions |-> p,
                      currentDrawdown |-> d, volatilityMetrics |-> v]
          /\ ret' = [fn |-> "advancedRiskCheck", value |-> advancedRiskCheck(p, d, v)]
    /\ UNCHANGED << cycleVars, sentVars, restVars >>

NextCorrelation ==
    \/ ApplyCalculateCorrelation
    \/ ApplyAnalyzePortfolioCorrelation
    \/ ApplyAdvancedRiskCheck
    \/ DropCall

SpecCorrelation ==
    Init /\ [][NextCorrelation]_vars

(***************************************************************************)
(* The indicator library on explicit series.  An argument is a series of   *)
(* numbers or is missing (undefined); a call returns a value or throws.    *)
(***************************************************************************)
Missing ==
    [present |-> FALSE, values |-> << >>]

Given(values) ==
    [present |-> TRUE, values |-> values]

\* reading a property of undefined throws a TypeError
Thrown ==
    [threw |-> TRUE, value |-> Null]

Returns(v) ==
    [threw |-> FALSE, value |-> v]

rsiResult(avgGain, avgLoss) ==
    IF avgLoss = Num(0) THEN Num(100)
    ELSE RSub(Num(100), RDiv(Num(100), RAdd(Num(1), RDiv(avgGain, avgLoss))))

RECURSIVE rsiLoop(_, _, _, _, _)
rsiStep(values, i, change, gains, losses, period) ==
    IF RLt(Num(0), change)
    THEN rsiLoop(values, i + 1, RAdd(gains, change), losses, period)
    ELSE rsiLoop(values, i + 1, gains, RSub(losses, change), period)

\* the loop over the last `period` changes; i is the 1-based index
rsiLoop(values, i, gains, losses, period) ==
    IF i > Len(values)
    THEN rsiResult(RDiv(gains, Num(period)), RDiv(losses, Num(period)))
    ELSE rsiStep(values, i, RSub(values[i], values[i - 1]), gains, losses, period)

\* rsi asking for one observation more than the period's changes need
rsiSeries_LongerGuard(values, period) ==
    IF Len(values) < period + 2 THEN Null
    ELSE rsiLoop(values, Len(values) - period + 1, Num(0), Num(0), period)

rsiSeries(values, period) ==
    IF Len(values) < period + 1 THEN Null
    ELSE rsiLoop(values, Len(values) - period + 1, Num(0), Num(0), period)

rsiCall(arg, period) ==
    IF ~arg.present THEN Thrown ELSE Returns(rsiSeries(arg.values, period))

MaxLen ==
    4

Closes ==
    {Num(1), Num(2), Num(3)}

ShortSeries ==
    UNION {[1..n -> Closes] : n \in 0..MaxLen}

Periods ==
    {1, 2, 3}

ApplyRsi ==
    /\ call = NoCall
    /\ \E a \in {Missing} \cup {Given(v) : v \in ShortSeries}, p \in Periods :
          /\ call' = [fn |-> "rsi", arg |-> a, period |-> p]
          /\ ret' = [fn |-> "rsi"] @@ rsiCall(a, p)
    /\ UNCHANGED << cycleVars, sentVars, restVars >>

\* the value an indicator's arithmetic yields on sufficient history
Reading ==
    Num(2)

Bands ==
    [upper |-> Num(3), lower |-> Num(1), middle |-> Num(2)]

Profile ==
    [nodes |-> << Num(10) >>, poc |-> Num(2)]

\* ema: if (!values || values.length < period) return null
emaCall(arg, period) ==
    IF ~arg.present THEN Returns(Null)
    ELSE Returns(ema(Len(arg.values), Reading, period))

\* macd: values.length is read first
macdCall(arg) ==
    IF ~arg.present THEN Thrown
    ELSE Returns(macd(Len(arg.values), Reading))

\* bollinger: values.length is read first
bollingerCall(arg, period) ==
    IF ~arg.present THEN Thrown
    ELSE Returns(bollinger(Len(arg.values), Bands, period))

\* atr: if (!candles || candles.length < period + 1) return null
atrCall(arg, period) ==
    IF ~arg.present THEN Returns(Null)
    ELSE Returns(atr(Len(arg.values), Reading, period))

noProfile ==
    [nodes |-> << >>, poc |-> Null]

volumeProfile(n, values) ==
    IF n = 0 THEN noProfile ELSE values

\* volumeProfile: if (!candles || !candles.length) return { nodes: [], poc: null }
volumeProfileCall(arg) ==
    IF ~arg.present THEN Returns(noProfile)
    ELSE Returns(volumeProfile(Len(arg.values), Profile))

SeriesArgs ==
    {Missing} \cup {Given(v) : v \in ShortSeries}

\* histories around the slow + signal observations macd asks for
LongArgs ==
    {Missing, Given(<< >>)}
        \cup {Given(Cycle(<< Num(1), Num(2) >>, n)) :
                 n \in (macdSlow + macdSignal - 1)..(macdSlow + macdSignal + 1)}

ApplyEma ==
    /\ call = NoCall
    /\ \E a \in SeriesArgs, p \in Periods :
          /\ call' = [fn |-> "ema", arg |-> a, period |-> p]
          /\ ret' = [fn |-> "ema"] @@ emaCall(a, p)
    /\ UNCHANGED << cycleVars, sentVars, restVars >>

ApplyMacd ==
    /\ call = NoCall
    /\ \E a \in LongArgs :
          /\ call' = [fn |-> "macd", arg |-> a, period |-> macdSlow]
          /\ ret' = [fn |-> "macd"] @@ macdCall(a)
    /\ UNCHANGED << cycleVars, sentVars, restVars >>

ApplyBollinger ==
    /\ call = NoCall
    /\ \E a \in SeriesArgs, p \in Periods :
          /\ call' = [fn |-> "bollinger", arg |-> a, period |-> p]
          /\ ret' = [fn |-> "bollinger"] @@ bollingerCall(a, p)
    /\ UNCHANGED << cycleVars, sentVars, restVars >>

ApplyAtr ==
    /\ call = NoCall
    /\ \E a \in SeriesArgs, p \in Periods :
          /\ call' = [fn |-> "atr", arg |-> a, period |-> p]
          /\ ret' = [fn |-> "atr"] @@ atrCall(a, p)
    /\ UNCHANGED << cycleVars, sentVars, restVars >>

ApplyVolumeProfile ==
    /\ call = NoCall
    /\ \E a \in SeriesArgs :
          /\ call' = [fn |-> "volumeProfile", arg |-> a, period |-> 0]
          /\ ret' = [fn |-> "volumeProfile"] @@ volumeProfileCall(a)
    /\ UNCHANGED << cycleVars, sentVars, restVars >>

\* Math.floor
Floor(x) ==
    x[1] \div x[2]

RECURSIVE minClose(_, _)
minClose(candles, acc) ==
    IF candles = << >> THEN acc
    ELSE minClose(Tail(candles), RMin(acc, Head(candles).close))

RECURSIVE maxClose(_, _)
maxClose(candles, acc) ==
    IF candles = << >> THEN acc
    ELSE maxClose(Tail(candles), RMax(acc, Head(candles).close))

\* (max - min) / bins || 1
binStep(min, max, bins) ==
    OrElse(RDiv(RSub(max, min), Num(bins)), Num(1))

IntMin(a, b) ==
    IF a <= b THEN a ELSE b

IntMax(a, b) ==
    IF a >= b THEN a ELSE b

\* the 0-based bucket of a price
binIndex(price, min, step, bins) ==
    IntMin(bins - 1, IntMax(0, Floor(RDiv(RSub(price, min), step))))

addVolume(nodes, idx, volume) ==
    [nodes EXCEPT ![idx + 1] = RAdd(@, OrElse(volume, Num(0)))]

RECURSIVE fillNodes(_, _, _, _, _)
fillNodes(candles, nodes, min, step, bins) ==
    IF candles = << >> THEN nodes
    ELSE fillNodes(Tail(candles),
                   addVolume(nodes, binIndex(Head(candles).close, min, step, bins),
                             Head(candles).volume),
                   min, step, bins)

\* nodes.indexOf(v), 0-based
RECURSIVE indexOf(_, _, _)
indexOf(nodes, v, i) ==
    IF i > Len(nodes) THEN -1
    ELSE IF nodes[i] = v THEN i - 1
    ELSE indexOf(nodes, v, i + 1)

\* min + pocIdx * step + step / 2
pointOfControl(min, step, pocIdx) ==
    RAdd(RAdd(min, RMul(Num(pocIdx), step)), RDiv(step, Num(2)))

profileOf(nodes, min, max, step) ==
    [nodes |-> nodes,
     poc |-> pointOfControl(min, step, indexOf(nodes, mathMax(nodes, Head(nodes)), 1)),
     range |-> [min |-> min, max |-> max]]

binned(candles, bins, min, max, step) ==
    profileOf(fillNodes(candles, [i \in 1..bins |-> Num(0)], min, step, bins), min, max, step)

ranged(candles, bins, min, max) ==
    binned(candles, bins, min, max, binStep(min, max, bins))

\* volumeProfile on candles given as close / volume pairs
volumeProfileBins(candles, bins) ==
    IF candles = << >> THEN noProfile
    ELSE ranged(candles, bins, minClose(candles, Head(candles).close),
                maxClose(candles, Head(candles).close))

MaxCandles ==
    3

CandleKinds ==
    [close : {Num(100), Num(101), Num(104)}, volume : {Null, Num(5), Num(10)}]

ApplyVolumeProfileBins ==
    /\ call = NoCall
    /\ \E n \in 0..MaxCandles, b \in {1, 2, 4} :
          \E cs \in [1..n -> CandleKinds] :
             /\ call' = [fn |-> "volumeProfileBins", candles |-> cs, bins |-> b]
             /\ ret' = [fn |-> "volumeProfileBins", value |-> volumeProfileBins(cs, b)]
    /\ UNCHANGED << cycleVars, sentVars, restVars >>

\* 1h candle counts around the histories ema(9), ema(21), macd and ema(50)
\* ask for
HourlyCounts ==
    {0, 9, 21, macdSlow + macdSignal, 49, 50, 60}

EmaLevels ==
    {100, 105, 110}

Histograms ==
    {Num(-1), Rat(-1, 100), Num(0), Rat(1, 100), Num(1)}

\* snapshots with no 5m candles, so that only the trend side acts
TrendSnapshots ==
    {Candles(0, n1, 0, 100, 50, e9, e21, e50, h, 1) :
        n1 \in HourlyCounts, e9 \in EmaLevels, e21 \in EmaLevels, e50 \in EmaLevels,
        h \in Histograms}

\* 5m candle counts around the histories rsi(14) and bollinger(20) ask for
ShortCounts ==
    {0, 14, 15, 19, 20, 120}

\* snapshots with a flat 1h timeframe, so that only the reversion side
\* acts; the 5m bands are 92 / 100 / 108
ReversionSnapshots ==
    {Candles(n5, 240, last5, 100, rsi5, 100, 100, 100, Num(0), 1) :
        n5 \in ShortCounts, last5 \in {90, 92, 100, 108, 110},
        rsi5 \in {0, 20, 30, 50, 70, 80, 100}}

ApplyAnalyzeMultiTimeframe ==
    /\ call = NoCall
    /\ \E c \in TrendSnapshots \cup ReversionSnapshots :
          /\ call' = [fn |-> "analyzeMultiTimeframe", candles |-> c]
          /\ ret' = [fn |-> "analyzeMultiTimeframe", value |-> analyzeMultiTimeframe(c)]
    /\ UNCHANGED << cycleVars, sentVars, restVars >>

NextIndicators ==
    \/ ApplyRsi
    \/ ApplyEma
    \/ ApplyMacd
    \/ ApplyBollinger
    \/ ApplyAtr
    \/ ApplyVolumeProfile
    \/ ApplyVolumeProfileBins
    \/ ApplyAnalyzeMultiTimeframe
    \/ DropCall

SpecIndicators ==
    Init /\ [][NextIndicators]_vars

(***************************************************************************)
(* The local part of decideTrade (fusion, conflict resolution, sizing) as  *)
(* a pure function, applied to snapshots with trends of both directions at *)
(* low and high volatility and to trade histories favouring either side    *)
(***************************************************************************)
FusionCandles ==
    CandleSnapshots \cup
    { Candles(120, 240, 100, 100, 50, 102, 101, 100, Rat(1, 2), 3),   \* up-trend, ATR 3%
      Candles(120, 240, 100, 100, 50, 98, 99, 100, Rat(-1, 2), 3),    \* down-trend, ATR 3%
      Candles(120, 240, 90, 100, 20, 102, 101, 100, Num(0), 0),       \* oversold, EMAs apart
      Candles(120, 240, 110, 100, 80, 98, 99, 100, Num(0), 0),        \* overbought, EMAs apart
      Candles(120, 240, 1000, 1000, 50, 1020, 1010, 1000, Rat(1, 2), 14) } \* up-trend, ATR 1.4%

FusionTradeKinds ==
    TradeKinds \cup
    { [strategy |-> "tech", success |-> FALSE, rr |-> Num(-1)],
      [strategy |-> "sentiment", success |-> TRUE, rr |-> Num(2)] }

FusionHistories ==
    UNION { [1..n -> FusionTradeKinds] : n \in 0..MaxTrades }

\* the event sets, and a bullish social reading that scores 70
FusionEvents ==
    EventSets \cup
    { Events(Social(Rat(23, 25), Rat(23, 25), Rat(23, 25), Rat(23, 25)), NoOnChain, NoMarket) }

FusionInputs ==
    [candles : FusionCandles, events : FusionEvents, positions : [equityUsd : Equities],
     recentTrades : {h \in FusionHistories : Len(h) <= 1}, risk : {NoInput.risk}]

ApplyComputePerfWeights ==
    /\ call = NoCall
    /\ \E h \in FusionHistories :
          /\ call' = [fn |-> "computePerfWeights", recentTrades |-> h]
          /\ ret' = [fn |-> "computePerfWeights", value |-> computePerfWeights(h)]
    /\ UNCHANGED << cycleVars, sentVars, restVars >>

ApplyDecideLocal ==
    /\ call = NoCall
    /\ \E inp \in FusionInputs :
          /\ call' = [fn |-> "decideTrade", input |-> inp]
          /\ ret' = [fn |-> "decideTrade", value |-> decideLocal(inp)]
    /\ UNCHANGED << cycleVars, sentVars, restVars >>

NextFusion ==
    \/ ApplyDecideLocal
    \/ ApplyComputePerfWeights
    \/ DropCall

SpecFusion ==
    Init /\ [][NextFusion]_vars

(***************************************************************************)
(* The trading loop: decideForSymbol from its call to its return, around   *)
(* the decision cycle                                                      *)
(***************************************************************************)
\* Number(x.toFixed(digits)), x >= 0
toFixed(x, digits) ==
    Rat(Round(RMul(x, Num(10 ^ digits))), 10 ^ digits)

\* x > 0 for a Number, null or undefined
isPositive(x) ==
    IsNum(x) /\ x[1] > 0

\* String(process.env.DRY_RUN || 'true').toLowerCase() !== 'false'
DRY_RUN(e) ==
    toLowerCase(IF e.DRY_RUN = "" THEN "true" ELSE e.DRY_RUN) # "false"

\* the order branch taken whatever DRY_RUN says
entersOrderBranch_Live(e, res) ==
    /\ res.outcome = "returned"
    /\ res.decision.action \in {"buy", "sell"}
    /\ isPositive(res.decision.sizeUsd)

\* !DRY_RUN && (action === 'buy' || action === 'sell') && sizeUsd > 0,
\* reached only when decideTrade returned
entersOrderBranch(e, res) ==
    /\ ~DRY_RUN(e)
    /\ res.outcome = "returned"
    /\ res.decision.action \in {"buy", "sell"}
    /\ isPositive(res.decision.sizeUsd)

\* String(symbol).toUpperCase().startsWith(prefix)
startsWith(sym, prefix) ==
    \/ prefix = "BTC" /\ sym = "BTC-USD"
    \/ prefix = "ETH" /\ sym = "ETH-USD"

\* the rounding used when the symbol filters cannot be fetched
fallbackRounded(sym, q) ==
    IF startsWith(sym, "BTC") THEN RMax(Num(0), toFixed(q, 3))
    ELSE IF startsWith(sym, "ETH") THEN RMax(Num(0), toFixed(q, 2))
    ELSE RMax(Num(0), toFixed(q, 4))

\* Math.min(maxQty, v), an absent maxQty standing for Number.MAX_VALUE
capQty(maxQty, v) ==
    IF Truthy(maxQty) THEN RMin(maxQty, v) ELSE v

flooredTo(q, step) ==
    RMul(Num(Floor(RDiv(q, step))), step)

\* the LOT_SIZE filter
lotRounded(q, lot) ==
    IF ~lot.present THEN q
    ELSE RMax(OrElse(lot.minQty, Num(0)),
              capQty(lot.maxQty, flooredTo(q, OrElse(lot.stepSize, Rat(1, 1000)))))

\* the MIN_NOTIONAL filter
notionalChecked(q, price, minNotional) ==
    IF minNotional.present /\ RLt(RMul(q, price), OrElse(minNotional.notional, Num(0)))
    THEN Num(0)
    ELSE q

quantityFor(e, sym, q, price, filters) ==
    IF e.ASTER_VENDOR = "binance"
    THEN IF filters.throws THEN fallbackRounded(sym, q)
         ELSE notionalChecked(lotRounded(q, filters.LOT_SIZE), price, filters.MIN_NOTIONAL)
    ELSE RMax(Num(0), toFixed(q, 6))

estimateQuantity(e, sym, sizeUsd, last, filters) ==
    IF ~Truthy(last) \/ ~Truthy(sizeUsd) THEN Num(0)
    ELSE quantityFor(e, sym, RDiv(sizeUsd, last), last, filters)

Environments ==
    [DRY_RUN : {"", "true", "false", "FALSE"}, ASTER_VENDOR : {"", "binance"}]

Symbols ==
    {"BTC-USD", "ETH-USD", "SOL-USD"}

Lot(present, stepSize, minQty, maxQty) ==
    [present |-> present, stepSize |-> stepSize, minQty |-> minQty, maxQty |-> maxQty]

MinNotional(present, notional) ==
    [present |-> present, notional |-> notional]

\* what api.getSymbolFilters answers: a rejection, no filters, a fine lot
\* grid, a coarse lot grid without minimum, a minimum notional out of reach
FilterResponses ==
    { [throws |-> TRUE, LOT_SIZE |-> Lot(FALSE, Null, Null, Null),
       MIN_NOTIONAL |-> MinNotional(FALSE, Null)],
      [throws |-> FALSE, LOT_SIZE |-> Lot(FALSE, Null, Null, Null),
       MIN_NOTIONAL |-> MinNotional(FALSE, Null)],
      [throws |-> FALSE, LOT_SIZE |-> Lot(TRUE, Rat(1, 1000), Rat(1, 1000), Num(1000)),
       MIN_NOTIONAL |-> MinNotional(TRUE, Num(5))],
      [throws |-> FALSE, LOT_SIZE |-> Lot(TRUE, Num(100), Null, Null),
       MIN_NOTIONAL |-> MinNotional(FALSE, Null)],
      [throws |-> FALSE, LOT_SIZE |-> Lot(TRUE, Null, Null, Num(1)),
       MIN_NOTIONAL |-> MinNotional(TRUE, Num(100000))] }

LoopInputs ==
    [candles : { Candles(0, 0, 0, 0, 0, 0, 0, 0, Num(0), 0),
                 Candles(120, 240, 100, 100, 50, 102, 101, 100, Rat(1, 2), 1),
                 Candles(120, 240, 100, 100, 50, 98, 99, 100, Rat(-1, 2), 1) },
     events : EventSets, positions : [equityUsd : Equities],
     recentTrades : {<< >>}, risk : RiskStates]

\* decideForSymbol(symbol) is called and runs up to the advisory call of
\* decideTrade, or to the early return of its risk gate.
DecideForSymbol ==
    /\ pc = "idle"
    /\ \E inp \in LoopInputs : StartWith(inp, decideLocal(inp))
    /\ \E sym \in Symbols : symbol' = sym
    /\ \E e \in Environments : env' = e
    /\ qty' = Null
    /\ orders' = << >>
    /\ UNCHANGED << advisory, sentVars, callVars, serviceVars >>

\* decideTrade has returned or thrown: the decision is logged and the guard
\* of the order branch is evaluated; a throw goes to the catch block.
CheckOrderGuard ==
    /\ pc = "done"
    /\ pc' = IF entersOrderBranch(env, result) THEN "estimating" ELSE "finished"
    /\ UNCHANGED << input, local, advisory, result, sentVars, callVars, loopVars, serviceVars >>

\* await estimateQuantity(...) and the test qty > 0
EstimateQuantity ==
    /\ pc = "estimating"
    /\ \E filters \in FilterResponses :
          qty' = estimateQuantity(env, symbol, result.decision.sizeUsd,
                                  lastOf(input.candles.n1, input.candles.last1), filters)
    /\ pc' = IF isPositive(qty') THEN "placing" ELSE "finished"
    /\ UNCHANGED << input, local, advisory, result, sentVars, callVars, env, symbol, orders, serviceVars >>

\* await api.placeOrder(order); the order has been handed over whether the
\* exchange accepts it or the call rejects.
PlaceOrder ==
    /\ pc = "placing"
    /\ orders' = Append(orders, [symbol |-> symbol,
                                 side |-> toUpperCase(result.decision.action),
                                 type |-> "MARKET", quantity |-> qty])
    /\ pc' = "finished"
    /\ UNCHANGED << input, local, advisory, result, sentVars, callVars, env, symbol, qty, serviceVars >>

\* decideForSymbol returns.
CycleReturns ==
    /\ pc = "finished"
    /\ pc' = "idle"
    /\ input' = NoInput
    /\ local' = NoLocal
    /\ advisory' = NoAdvisory
    /\ result' = NoResult
    /\ env' = NoEnv
    /\ symbol' = ""
    /\ qty' = Null
    /\ orders' = << >>
    /\ UNCHANGED << sentVars, callVars, serviceVars >>

NextLoop ==
    \/ DecideForSymbol
    \/ AdvisorySettles
    \/ CheckOrderGuard
    \/ EstimateQuantity
    \/ PlaceOrder
    \/ CycleReturns

SpecLoop ==
    Init /\ [][NextLoop]_vars

(***************************************************************************)
(* AsterWebSocket: connect, the socket's open and close events, the        *)
(* reconnect timer, the heartbeat interval and disconnect.  ENABLE_WS is   *)
(* not 'false'; the event loop runs one callback at a time.                *)
(***************************************************************************)
MaxSockets ==
    6

MaxPings ==
    2

notWs == << cycleVars, sentVars, callVars, loopVars, apiVars, simVars >>

\* new WebSocket(url): the object is created in readyState CONNECTING and
\* becomes this._socket
connected(all) ==
    Append(all, "connecting")

\* this._socket?.close(): a closed or closing socket is left as it is
closed(all) ==
    IF all # << >> /\ all[Len(all)] \in {"connecting", "open"}
    THEN [all EXCEPT ![Len(all)] = "closing"]
    ELSE all

\* Math.min(this._backoff * 2, this.reconnectMaxMs)
nextBackoff(b) ==
    IF b * 2 <= reconnectMaxMs THEN b * 2 ELSE reconnectMaxMs

\* the sequence without its i-th element
without(seq, i) ==
    SubSeq(seq, 1, i - 1) \o SubSeq(seq, i + 1, Len(seq))

\* ws.connect() as main calls it: once, at startup
Connect ==
    /\ sockets = << >>
    /\ timers = << >>
    /\ ~disconnected
    /\ sockets' = connected(sockets)
    /\ UNCHANGED << shouldReconnect, backoff, heartbeat, timers, disconnected, pings, notWs >>

\* socket.on('open'): the backoff is reset and the heartbeat restarted
SocketOpens ==
    /\ \E i \in 1..Len(sockets) :
          /\ sockets[i] = "connecting"
          /\ sockets' = [sockets EXCEPT ![i] = "open"]
    /\ backoff' = reconnectBaseMs
    /\ heartbeat' = TRUE
    /\ UNCHANGED << shouldReconnect, timers, disconnected, pings, notWs >>

\* socket.on('close'), after a failed handshake, a drop of the connection or
\* a close() call: the heartbeat is stopped and, if _shouldReconnect, a
\* reconnect is scheduled after _backoff and _backoff doubled up to the cap
SocketCloses ==
    /\ \E i \in 1..Len(sockets) :
          /\ sockets[i] \in {"connecting", "open", "closing"}
          /\ sockets' = [sockets EXCEPT ![i] = "closed"]
    /\ heartbeat' = FALSE
    /\ timers' = IF shouldReconnect THEN Append(timers, backoff) ELSE timers
    /\ backoff' = IF shouldReconnect THEN nextBackoff(backoff) ELSE backoff
    /\ UNCHANGED << shouldReconnect, disconnected, pings, notWs >>

\* a reconnect timer fires: () => this.connect()
ReconnectTimerFires ==
    /\ Len(sockets) < MaxSockets
    /\ \E i \in 1..Len(timers) : timers' = without(timers, i)
    /\ sockets' = connected(sockets)
    /\ UNCHANGED << shouldReconnect, backoff, heartbeat, disconnected, pings, notWs >>

\* the heartbeat interval fires: _send({type: 'ping'}) sends when _socket is
\* OPEN
HeartbeatFires ==
    /\ heartbeat
    /\ pings < MaxPings
    /\ pings' = IF sockets # << >> /\ sockets[Len(sockets)] = "open" THEN pings + 1 ELSE pings
    /\ UNCHANGED << shouldReconnect, backoff, heartbeat, sockets, timers, disconnected, notWs >>

\* disconnect()
Disconnect ==
    /\ ~disconnected
    /\ disconnected' = TRUE
    /\ shouldReconnect' = FALSE
    /\ heartbeat' = FALSE
    /\ sockets' = closed(sockets)
    /\ UNCHANGED << backoff, timers, pings, notWs >>

NextSocket ==
    \/ Connect
    \/ SocketOpens
    \/ SocketCloses
    \/ ReconnectTimerFires
    \/ HeartbeatFires
    \/ Disconnect

SpecSocket ==
    Init /\ [][NextSocket]_vars

(***************************************************************************)
(* AsterApiClient: one request from this.http.request(config) to the       *)
(* settled promise, through the response interceptor.  axios hands the     *)
(* interceptor the request's config and keeps its _retryCount field when   *)
(* the config is sent again; a 2xx status resolves, any other rejects.     *)
(***************************************************************************)
notApi == << cycleVars, sentVars, callVars, loopVars, wsVars, simVars >>

\* options.maxRetries || 3
retryLimit(option) ==
    IF Truthy(option) THEN option[1] ELSE 3

\* status >= 500 || status === 429, status undefined without a response
retryable(st) ==
    IsNum(st) /\ (st[1] >= 500 \/ st[1] = 429)

\* Math.min(2000 * config._retryCount, 8000)
waitFor(count) ==
    IF 2000 * count <= 8000 THEN 2000 * count ELSE 8000

\* the values of options.maxRetries: absent, or a count
RetryOptions ==
    {Null, Num(0), Num(1), Num(2)}

\* what comes back: no response (a timeout or network error), or a status
Responses ==
    {Null, Num(200), Num(404), Num(429), Num(499), Num(500), Num(503)}

\* a client is constructed and a request is sent through it
SendRequest ==
    /\ request = "none"
    /\ \E option \in RetryOptions : maxRetries' = option
    /\ request' = "sent"
    /\ retryCount' = 0
    /\ attempts' = 1
    /\ status' = Null
    /\ waitMs' = 0
    /\ UNCHANGED notApi

\* the response interceptor's success handler: (res) => res
ResponseResolves ==
    /\ request = "sent"
    /\ request' = "resolved"
    /\ UNCHANGED << maxRetries, retryCount, attempts, status, waitMs, notApi >>

\* the response interceptor's error handler, up to the wait or the
\* rejection
ResponseFails ==
    /\ request = "sent"
    /\ \E st \in Responses \ {Num(200)} :
          /\ status' = st
          /\ retryCount' = IF retryable(st) THEN retryCount + 1 ELSE retryCount
          /\ request' = IF retryable(st) /\ retryCount + 1 <= retryLimit(maxRetries)
                        THEN "waiting" ELSE "rejected"
          /\ waitMs' = IF retryable(st) /\ retryCount + 1 <= retryLimit(maxRetries)
                       THEN waitFor(retryCount + 1) ELSE waitMs
    /\ UNCHANGED << maxRetries, attempts, notApi >>

\* the wait is over: return this.http(config)
Resend ==
    /\ request = "waiting"
    /\ request' = "sent"
    /\ attempts' = attempts + 1
    /\ UNCHANGED << maxRetries, retryCount, status, waitMs, notApi >>

\* the caller has the result
RequestSettled ==
    /\ request \in {"resolved", "rejected"}
    /\ request' = "none"
    /\ maxRetries' = Null
    /\ retryCount' = 0
    /\ attempts' = 0
    /\ status' = Null
    /\ waitMs' = 0
    /\ UNCHANGED notApi

NextRequest ==
    \/ SendRequest
    \/ ResponseResolves
    \/ ResponseFails
    \/ Resend
    \/ RequestSettled

SpecRequest ==
    Init /\ [][NextRequest]_vars

(***************************************************************************)
(* TradingSimulator: executeTrade and reset on a simulator with the        *)
(* default options, in exact arithmetic                                    *)
(***************************************************************************)
notSim == << cycleVars, sentVars, callVars, loopVars, wsVars, apiVars >>

MaxExecuted ==
    4

\* this.positions[symbol] || 0
held(pos, sym) ==
    IF sym \in DOMAIN pos THEN pos[sym] ELSE Num(0)

\* this.positions[symbol] = q
assigned(pos, sym, q) ==
    [s \in DOMAIN pos \cup {sym} |-> IF s = sym THEN q ELSE pos[s]]

\* delete this.positions[symbol]
deleted(pos, sym) ==
    [s \in DOMAIN pos \ {sym} |-> pos[s]]

\* the positions map after selling sellQuantity of currentPosition
afterSell(pos, sym, currentPosition, sellQuantity) ==
    IF RLe(RSub(currentPosition, sellQuantity), Num(0))
    THEN deleted(pos, sym)
    ELSE assigned(pos, sym, RSub(currentPosition, sellQuantity))

\* the trade record pushed and returned
tradeOf(c, side) ==
    [symbol |-> c.symbol, side |-> toUpperCase(side),
     quantity |-> RDiv(c.sizeUsd, c.price), price |-> c.price,
     value |-> c.sizeUsd, fee |-> RMul(c.sizeUsd, fees)]

\* executeTrade, side buy
executeBuy(c, feeAmount) ==
    IF RLt(balance, RAdd(c.sizeUsd, feeAmount))
    THEN /\ executed' = "null"
         /\ UNCHANGED << balance, positions, trades >>
    ELSE /\ balance' = RSub(balance, RAdd(c.sizeUsd, feeAmount))
         /\ positions' = assigned(positions, c.symbol,
                                  RAdd(held(positions, c.symbol), RDiv(c.sizeUsd, c.price)))
         /\ trades' = Append(trades, tradeOf(c, "buy"))
         /\ executed' = "trade"

\* executeTrade, side sell, with a position held
sellHeld(c, feeAmount, currentPosition, sellQuantity) ==
    /\ balance' = RAdd(balance, RSub(RMul(sellQuantity, c.price), feeAmount))
    /\ positions' = afterSell(positions, c.symbol, currentPosition, sellQuantity)
    /\ trades' = Append(trades, tradeOf(c, "sell"))
    /\ executed' = "trade"

\* executeTrade, side sell
executeSell(c, feeAmount, currentPosition) ==
    IF RLe(currentPosition, Num(0))
    THEN /\ executed' = "null"
         /\ UNCHANGED << balance, positions, trades >>
    ELSE sellHeld(c, feeAmount, currentPosition,
                  RMin(RDiv(c.sizeUsd, c.price), currentPosition))

\* executeTrade, any other side: the trade is recorded, nothing moves
executeOther(c, side) ==
    /\ trades' = Append(trades, tradeOf(c, side))
    /\ executed' = "trade"
    /\ UNCHANGED << balance, positions >>

executeTrade(c, side) ==
    IF side = "buy" THEN executeBuy(c, RMul(c.sizeUsd, fees))
    ELSE IF side = "sell"
    THEN executeSell(c, RMul(c.sizeUsd, fees), held(positions, c.symbol))
    ELSE executeOther(c, side)

\* the calls: two symbols, positive sizes up to the order cap, one price
Executions ==
    [symbol : {"BTC-USD", "ETH-USD"}, action : {"buy", "SELL", "hold"},
     sizeUsd : {Num(1), Num(4989), Num(5000)}, price : {Num(100)}]

ExecuteTrade ==
    /\ Len(trades) < MaxExecuted
    /\ \E c \in Executions :
          /\ executing' = c
          /\ executeTrade(c, toLowerCase(c.action))
    /\ UNCHANGED notSim

\* reset()
Reset ==
    /\ balance' = Num(initialBalance)
    /\ positions' = << >>
    /\ trades' = << >>
    /\ executing' = NoExecution
    /\ executed' = "none"
    /\ UNCHANGED notSim

NextSimulator ==
    \/ ExecuteTrade
    \/ Reset

SpecSimulator ==
    Init /\ [][NextSimulator]_vars

(***************************************************************************)
(* Properties of the decision cycle                                        *)
(***************************************************************************)
Returned ==
    pc = "done" /\ result.outcome = "returned"

\* The advisory record decideTrade received in this cycle
llmDecision ==
    consultDeepSeek(advisory)

decision ==
    result.decision

LocalUnchanged ==
    /\ decision.action = local.action
    /\ decision.confidence = local.confidence
    /\ decision.sizeUsd = local.sizeUsd

\* C1: the sizeUsd of every decision decideTrade returns is a number with
\* 0 <= sizeUsd <= maxPositionUsd.
Thm_C1_SizeWithinCap ==
    Returned =>
        /\ IsNum(decision.sizeUsd)
        /\ RLe(Num(0), decision.sizeUsd)
        /\ RLe(decision.sizeUsd, Num(maxPositionUsd))

\* C1 witness: a returned decision whose notional was cut down to the cap.
Wit_C1_CapBinds ==
    /\ Returned
    /\ decision.sizeUsd = Num(maxPositionUsd)
    /\ RLt(Num(maxPositionUsd),
           positionSizeUsd(local.accountEquityUsd, local.confidence, local.atrPct, Rat(2, 100)))

StopsOnCorrectSide ==
    LET entry == local.lastClose
        st == decision.stops
    IN  /\ decision.action = "buy" =>
               RLt(st.stopLoss, entry) /\ RLt(entry, st.takeProfit)
        /\ decision.action = "sell" =>
               RLt(st.takeProfit, entry) /\ RLt(entry, st.stopLoss)

\* C2: in every returned decision the stops are on the correct side of the
\* entry price (buy: stopLoss < entry < takeProfit; sell: takeProfit < entry
\* < stopLoss), on the ATR path and on the basis-point path.
Cex_C2_StopsAlways ==
    Returned => StopsOnCorrectSide

\* The breaker and halt predicates on the cycle's market and account state
GateTripped ==
    LET circuit == marketCircuitBreaker(
                       [change1hPct |-> input.risk.change1hPct,
                        change5mPct |-> input.risk.change5mPct,
                        orderbookImbalance |-> input.events.market.orderbook.imbalance,
                        volatilitySpike |-> FALSE, correlationBreakdown |-> FALSE])
    IN  \/ circuit
        \/ shouldHaltTrading(input.risk.realizedPnlTodayUsd,
                             input.risk.drawdownFromPeakPct, circuit)

\* C3: whenever the circuit breaker or the halt predicate is true of the
\* cycle's market/account state, the cycle ends at the gate with action hold
\* and reason "risk_halt", before any advisory call.
Cex_C3_GateHalts ==
    (pc # "idle" /\ GateTripped) => (pc = "done" /\ result = haltRecord)

\* C4: whatever the advisory call does, decideTrade returns a decision
\* record; no exception leaves the cycle.
Cex_C4_AdvisoryNeverBlocks ==
    pc = "done" => result.outcome = "returned"

\* C5: when an advisory reply is accepted and carries a positive position
\* size, a decision is returned whose sizeUsd is the smaller of the local
\* capped size and the capped advisory size (equity x position_size percent).
Cex_C5_SmallerSize ==
    (pc = "done" /\ llmAccepted(local, llmDecision) /\ Truthy(llmDecision.positionSizePct)) =>
        /\ result.outcome = "returned"
        /\ decision.sizeUsd =
               RMin(local.sizeUsd,
                    capOrderSizeUsd(RMul(local.accountEquityUsd,
                                         RDiv(llmDecision.positionSizePct, Num(100)))))

\* The acceptance rule of C6, stated on the reply as decideTrade receives it
AdvisoryBias ==
    IF llmDecision.action = "BUY" THEN "buy"
    ELSE IF llmDecision.action = "SELL" THEN "sell"
    ELSE "hold"

AdvisoryConfidence ==
    IF llmDecision.kind = "decision" /\ IsNum(llmDecision.confidence)
    THEN llmDecision.confidence
    ELSE Num(0)

MayOverride ==
    /\ llmDecision.kind = "decision"
    /\ \/ /\ AdvisoryBias = local.action
          /\ RLe(RSub(local.confidence, Rat(1, 10)), AdvisoryConfidence)
       \/ RLt(RAdd(local.confidence, Rat(2, 10)), AdvisoryConfidence)

\* C6: an available advisory reply changes action, confidence or size only
\* when (a) its action aligns with the local action and its confidence is at
\* least the local confidence minus 0.1, or (b) its confidence exceeds the
\* local confidence by more than 0.2; otherwise the returned action,
\* confidence and sizeUsd are the local ones.
Thm_C6_OverrideOnlyWhenAllowed ==
    (Returned /\ llmDecision.kind # "null" /\ ~MayOverride) => LocalUnchanged

\* C6 witness: a reply with a different action and a confidence not more
\* than 0.2 above the local one is received and the local decision stands.
Wit_C6_Rejected ==
    /\ Returned
    /\ llmDecision.kind = "decision"
    /\ AdvisoryBias # local.action
    /\ RLt(local.confidence, AdvisoryConfidence)
    /\ ~MayOverride
    /\ LocalUnchanged

\* A reply that arrived but is unparseable or violates the schema
MalformedReply ==
    /\ advisory.apiKey /\ advisory.use /\ ~advisory.fails
    /\ \/ ~extractJson(advisory.text).ok
       \/ (IF advisory.text.obj.action # ""
           THEN advisory.text.obj.action ELSE advisory.text.obj.DECISION)
              \notin {"BUY", "SELL", "HOLD"}
       \/ advisory.text.obj.confidence = NonNumeric

\* C7: an unparseable or schema-violating reply is treated as no advisory:
\* it alters neither action, confidence nor size, and does not appear in
\* the returned record.
Cex_C7_MalformedDiscarded ==
    (Returned /\ MalformedReply) =>
        /\ LocalUnchanged
        /\ decision.llmDecision.kind = "null"

\* C8: the confidence of every returned decision is a number in [0, 1], and
\* the locally fused confidence is in [0, 0.99].
Thm_C8_ConfidenceRange ==
    /\ (pc # "idle" =>
           RLe(Num(0), local.confidence) /\ RLe(local.confidence, Rat(99, 100)))
    /\ (Returned =>
           /\ IsNum(decision.confidence)
           /\ RLe(Num(0), decision.confidence)
           /\ RLe(decision.confidence, Num(1)))

\* C8 witness: a reply with confidence 1.5 is accepted and the returned
\* confidence is 1.
Wit_C8_ClampedAdvisory ==
    /\ Returned
    /\ advisory.text.parses
    /\ fieldOr(advisory.text.obj.confidence, advisory.text.obj.CONFIDENCE) = Rat(3, 2)
    /\ llmAccepted(local, llmDecision)
    /\ decision.confidence = Num(1)

ScoreInRange(x) ==
    x \in 0..100

\* C9: fuseSentiment returns an integer score in [0, 100], three sub-scores
\* in [0, 100], and a label that is bullish exactly when score > 60, bearish
\* exactly when score < 40 and neutral otherwise.
Thm_C9_SentimentRangeAndLabel ==
    /\ ScoreInRange(sentOut.score)
    /\ ScoreInRange(sentOut.breakdown.socialScore)
    /\ ScoreInRange(sentOut.breakdown.onchainScore)
    /\ ScoreInRange(sentOut.breakdown.structureScore)
    /\ sentOut.label \in {"bullish", "bearish", "neutral"}
    /\ (sentOut.label = "bullish") <=> (sentOut.score > 60)
    /\ (sentOut.label = "bearish") <=> (sentOut.score < 40)

\* C9 witness: fuseSentiment was applied and the fused score is exactly 60,
\* labelled neutral.
Wit_C9_SixtyIsNeutral ==
    /\ sentIn # NoSentIn
    /\ sentOut.score = 60
    /\ sentOut.label = "neutral"

\* C10: with no sentiment inputs at all the sentiment result is score 50
\* with bias 0; with too little candle history the technical bias is 0; the
\* cycle still returns a decision.
Cex_C10_NeutralDefaults ==
    (pc # "idle" /\ input.events = Events(NoSocial, NoOnChain, NoMarket)) =>
        /\ local.sentiment.score = 50
        /\ local.sentimentBias = Num(0)

(***************************************************************************)
(* Properties of the risk manager's functions                              *)
(***************************************************************************)
\* C11: shouldHaltTrading returns true exactly when the circuit-breaker flag
\* is set, or the realized PnL is at most -maxDailyLossUsd (boundary
\* inclusive), or the drawdown from peak is at least 10.
Thm_C11_HaltExactly ==
    call.fn = "shouldHaltTrading" =>
        (ret.value <=>
            \/ call.circuitBreaker
            \/ ~RLt(Num(-maxDailyLossUsd), call.realizedPnlTodayUsd)
            \/ (call.drawdownFromPeakPct # Null
                /\ ~RLt(call.drawdownFromPeakPct, Num(10))))

\* C11 witness: PnL exactly at -maxDailyLossUsd, no breaker, small drawdown.
Wit_C11_LossBoundary ==
    /\ call.fn = "shouldHaltTrading"
    /\ call.realizedPnlTodayUsd = Num(-maxDailyLossUsd)
    /\ ~call.circuitBreaker
    /\ call.drawdownFromPeakPct = Num(5)
    /\ ret.value

\* |x| > t for a present field x
Beyond(x, t) ==
    x # Null /\ (RLt(t, x) \/ RLt(x, RNeg(t)))

\* C12: marketCircuitBreaker returns true exactly when |change1hPct| > 8,
\* |change5mPct| > 3.5, |orderbookImbalance| > 0.8, or one of the two flags
\* is set; the thresholds are strict and absent fields do not trip it.
Thm_C12_BreakerExactly ==
    call.fn = "marketCircuitBreaker" =>
        (ret.value <=>
            \/ Beyond(call.change1hPct, Num(8))
            \/ Beyond(call.change5mPct, Rat(7, 2))
            \/ Beyond(call.orderbookImbalance, Rat(4, 5))
            \/ call.volatilitySpike
            \/ call.correlationBreakdown)

\* C12 witness: every field exactly at its threshold, no flag, not tripped.
Wit_C12_AtThresholds ==
    /\ call.fn = "marketCircuitBreaker"
    /\ call.change1hPct = Num(8)
    /\ call.change5mPct = Rat(7, 2)
    /\ call.orderbookImbalance = Rat(4, 5)
    /\ ~call.volatilitySpike
    /\ ~call.correlationBreakdown
    /\ ~ret.value

\* p - (1 - p) / R limited to [0, 1/4], in exact arithmetic
\* equal up to the rounding of a few operations
Close(a, b) ==
    IsNum(a) /\ RLe(RAbs(RSub(a, b)), Rat(1, 2^(MantissaBits - 3)))

KellyFormula(p, R) ==
    RMax(Num(0), RMin(Rat(1, 4), RSub(p, RDiv(RSub(Num(1), p), R))))

\* C13: for winProb in [0, 1] and winLossRatio > 0 the Kelly fraction lies
\* in [0, 0.25] and equals p - (1 - p) / R limited to [0, 0.25], up to
\* rounding.
Cex_C13_KellyFormula ==
    (/\ call.fn = "kellyFraction"
     /\ RLe(Num(0), call.winProb) /\ RLe(call.winProb, Num(1))
     /\ RLt(Num(0), call.winLossRatio)) =>
        /\ RLe(Num(0), ret.value) /\ RLe(ret.value, Rat(1, 4))
        /\ Close(ret.value, KellyFormula(call.winProb, call.winLossRatio))

\* x limited to [0, maxPositionUsd], by cases
Clamped(x) ==
    IF RLt(x, Num(0)) THEN Num(0)
    ELSE IF RLt(Num(maxPositionUsd), x) THEN Num(maxPositionUsd)
    ELSE x

\* C14: capOrderSizeUsd limits its argument to [0, maxPositionUsd], and
\* applying it to its own result gives that result again.
Thm_C14_ClampIdempotent ==
    call.fn = "capOrderSizeUsd" =>
        /\ ret.value = Clamped(call.desiredUsd)
        /\ call.origin # Null => ret.value = call.desiredUsd

\* C14 witness: 5001 was capped to 5000 and 5000 capped again is 5000.
Wit_C14_CappedTwice ==
    /\ call.fn = "capOrderSizeUsd"
    /\ call.origin = Num(maxPositionUsd + 1)
    /\ call.desiredUsd = Num(maxPositionUsd)
    /\ ret.value = Num(maxPositionUsd)

(***************************************************************************)
(* Properties of the indicator library                                     *)
(***************************************************************************)
StrictlyIncreasing(values) ==
    \A i \in 1..(Len(values) - 1) : RLt(values[i], values[i + 1])

\* C15: rsi returns exactly 100 for a strictly increasing series longer
\* than the period, a value in [0, 100] for any series of at least
\* period + 1 observations, and null for a shorter series.
Thm_C15_RsiRange ==
    (call.fn = "rsi" /\ call.arg.present) =>
        /\ ~ret.threw
        /\ Len(call.arg.values) < call.period + 1 => ret.value = Null
        /\ Len(call.arg.values) >= call.period + 1 =>
              /\ IsNum(ret.value)
              /\ RLe(Num(0), ret.value) /\ RLe(ret.value, Num(100))
        /\ (Len(call.arg.values) > call.period /\ StrictlyIncreasing(call.arg.values)) =>
              ret.value = Num(100)

\* C15 witness: a strictly increasing series of exactly period + 1
\* observations gives 100.
Wit_C15_Increasing ==
    /\ call.fn = "rsi"
    /\ call.arg = Given(<< Num(1), Num(2), Num(3) >>)
    /\ call.period = 2
    /\ ret.value = Num(100)

(***************************************************************************)
(* Properties of the correlation analysis                                  *)
(***************************************************************************)
Constant(returns) ==
    \A i \in 1..Len(returns) : returns[i] = returns[1]

\* C16: calculateCorrelation is symmetric, is 1 for a non-constant series
\* with itself, is 0 for series of different lengths, of fewer than 2
\* points or with a constant series, and always lies in [-1, 1].
Cex_C16_CorrelationLaws ==
    call.fn = "calculateCorrelation" =>
        /\ ret.value = calculateCorrelation(call.returns2, call.returns1)
        /\ (/\ call.returns1 = call.returns2
            /\ Len(call.returns1) >= 2
            /\ ~Constant(call.returns1)) => ret.value = Num(1)
        /\ (\/ Len(call.returns1) # Len(call.returns2)
            \/ Len(call.returns1) < 2
            \/ Constant(call.returns1)
            \/ Constant(call.returns2)) => ret.value = Num(0)
        /\ IsNum(ret.value)
        /\ RLe(Num(-1), ret.value) /\ RLe(ret.value, Num(1))

\* the number of most recent observations two histories both have, at most 20
MatchedWindow(h1, h2) ==
    IF Len(h1) <= Len(h2)
    THEN IF Len(h1) <= 20 THEN Len(h1) ELSE 20
    ELSE IF Len(h2) <= 20 THEN Len(h2) ELSE 20

MatchedCorrelation(h1, h2) ==
    FAbs(calculateCorrelation(sliceLast(h1, MatchedWindow(h1, h2)),
                              sliceLast(h2, MatchedWindow(h1, h2))))

\* |correlation| over matched windows, for every pair with 10 points each
RECURSIVE MatchedCorrelations(_, _, _, _)
MatchedCorrelations(portfolio, i, j, acc) ==
    IF i > Len(portfolio) THEN acc
    ELSE IF j > Len(portfolio) THEN MatchedCorrelations(portfolio, i + 1, i + 2, acc)
    ELSE IF Len(portfolio[i].history) >= 10 /\ Len(portfolio[j].history) >= 10
    THEN MatchedCorrelations(portfolio, i, j + 1,
             Append(acc, MatchedCorrelation(portfolio[i].history, portfolio[j].history)))
    ELSE MatchedCorrelations(portfolio, i, j + 1, acc)

ReportsExactly(report, expected) ==
    expected # << >> =>
        /\ report.avgCorrelation = avgCorrelation(expected)
        /\ report.maxCorrelation = maxCorrelation(expected)

IdenticalPair(portfolio) ==
    \E i \in 1..Len(portfolio) : \E j \in (i + 1)..Len(portfolio) :
        /\ portfolio[i].history = portfolio[j].history
        /\ Len(portfolio[i].history) >= 10
        /\ ~Constant(portfolio[i].history)

\* C17: analyzePortfolioCorrelation reports, for every pair of held symbols
\* with at least 10 history points each, the absolute correlation of their
\* most recent (up to 20) matched observations; avgCorrelation and
\* maxCorrelation are the mean and the maximum of exactly these values,
\* and two identical non-constant histories give maxCorrelation 1, which
\* is above the correlationBreakdown threshold.
Cex_C17_MatchedWindows ==
    call.fn = "analyzePortfolioCorrelation" =>
        /\ ReportsExactly(ret.value, MatchedCorrelations(call.positions, 1, 2, << >>))
        /\ IdenticalPair(call.positions) =>
              /\ ret.value.maxCorrelation = Num(1)
              /\ FGt(ret.value.maxCorrelation, Literal(8, 10))

\* volatilityMetrics?.x || 0 for the fields used in the grid
VolOrZero(x) ==
    IF x = Null THEN Num(0) ELSE x

\* C18: advancedRiskCheck.shouldHalt is true exactly when one of its four
\* flags is true, where correlationBreakdown is maxCorrelation > 0.8,
\* concentrationRisk is riskConcentration > 0.6, volatilitySpike is
\* currentVol > 2 x avgVol and drawdownLimit is currentDrawdown > 0.08;
\* the result always carries all four flags.
Thm_C18_HaltIsAnyFlag ==
    call.fn = "advancedRiskCheck" =>
        /\ DOMAIN ret.value.riskFlags =
              {"correlationBreakdown", "concentrationRisk", "volatilitySpike", "drawdownLimit"}
        /\ ret.value.riskFlags.correlationBreakdown <=>
              (IsNum(ret.value.correlation.maxCorrelation)
               /\ RLt(Literal(8, 10), ret.value.correlation.maxCorrelation))
        /\ ret.value.riskFlags.concentrationRisk <=>
              (IsNum(ret.value.correlation.riskConcentration)
               /\ RLt(Literal(6, 10), ret.value.correlation.riskConcentration))
        /\ ret.value.riskFlags.volatilitySpike <=>
              RLt(RMul(Num(2), VolOrZero(call.volatilityMetrics.avgVol)),
                  VolOrZero(call.volatilityMetrics.currentVol))
        /\ ret.value.riskFlags.drawdownLimit <=>
              (call.currentDrawdown # Null /\ RLt(Literal(8, 100), call.currentDrawdown))
        /\ ret.value.shouldHalt <=>
              \/ ret.value.riskFlags.correlationBreakdown
              \/ ret.value.riskFlags.concentrationRisk
              \/ ret.value.riskFlags.volatilitySpike
              \/ ret.value.riskFlags.drawdownLimit

\* C18 witness: only the drawdown flag is raised, and the verdict is halt.
Wit_C18_DrawdownOnly ==
    /\ call.fn = "advancedRiskCheck"
    /\ ret.value.riskFlags.drawdownLimit
    /\ ~ret.value.riskFlags.correlationBreakdown
    /\ ~ret.value.riskFlags.concentrationRisk
    /\ ~ret.value.riskFlags.volatilitySpike
    /\ ret.value.shouldHalt

\* the number of observations below which an indicator has no result
Needed(fn, period) ==
    CASE fn = "ema" -> period
      [] fn = "rsi" -> period + 1
      [] fn = "macd" -> macdSlow + macdSignal
      [] fn = "bollinger" -> period
      [] fn = "atr" -> period + 1
      [] fn = "volumeProfile" -> 1

Unavailable(fn, value) ==
    CASE fn = "bollinger" -> ~value.ok
      [] fn = "volumeProfile" -> value = [nodes |-> << >>, poc |-> Null]
      [] OTHER -> value = Null

IndicatorNames ==
    {"ema", "rsi", "macd", "bollinger", "atr", "volumeProfile"}

\* C19: every indicator is total: with insufficient history or a missing
\* input sequence it returns its unavailable result and never throws.
Cex_C19_IndicatorsTotal ==
    call.fn \in IndicatorNames =>
        /\ ~ret.threw
        /\ (~call.arg.present \/ Len(call.arg.values) < Needed(call.fn, call.period)) =>
              Unavailable(call.fn, ret.value)

\* all three EMAs exist on the 1h closes (the longest needs 50)
EmasAvailable(c) ==
    c.n1 >= 9 /\ c.n1 >= 21 /\ c.n1 >= 50

\* the 1h MACD histogram, 0 when the MACD is unavailable
HistogramOf(c) ==
    IF c.n1 >= 35 THEN c.macdHist1 ELSE Num(0)

TrendUp(c) ==
    /\ EmasAvailable(c)
    /\ RLt(c.ema21, c.ema9) /\ RLt(c.ema50, c.ema21)
    /\ RLt(Num(0), HistogramOf(c))

TrendDown(c) ==
    /\ EmasAvailable(c)
    /\ RLt(c.ema9, c.ema21) /\ RLt(c.ema21, c.ema50)
    /\ RLt(HistogramOf(c), Num(0))

\* C20: the trend bias is +1 when EMA9 > EMA21 > EMA50 on the 1h timeframe
\* and the 1h MACD histogram is positive, -1 for the strict mirror
\* condition, and 0 otherwise, also when an EMA or the MACD is unavailable.
Thm_C20_TrendBias ==
    call.fn = "analyzeMultiTimeframe" =>
        ret.value.trendBias =
            IF TrendUp(call.candles) THEN 1
            ELSE IF TrendDown(call.candles) THEN -1
            ELSE 0

\* C20 witness: EMA9 = 110 > EMA21 = 105 > EMA50 = 100 with a positive
\* histogram gives +1.
Wit_C20_UpTrend ==
    /\ call.fn = "analyzeMultiTimeframe"
    /\ call.candles.n1 = 50
    /\ call.candles.ema9 = Num(110)
    /\ call.candles.ema21 = Num(105)
    /\ call.candles.ema50 = Num(100)
    /\ call.candles.macdHist1 = Rat(1, 100)
    /\ ret.value.trendBias = 1

(***************************************************************************)
(* Properties of the local decision                                        *)
(***************************************************************************)
\* technical bias positive against sentiment below -0.25, or the mirror
Conflicting(l) ==
    \/ (l.techBias > 0 /\ RLt(l.sentimentBias, Rat(-1, 4)))
    \/ (l.techBias < 0 /\ RLt(Rat(1, 4), l.sentimentBias))

ByThreshold(fused) ==
    IF RLt(Rat(1, 10), fused) THEN "buy"
    ELSE IF RLt(fused, Rat(-1, 10)) THEN "sell"
    ELSE "hold"

Direction(positive) ==
    IF positive THEN "buy" ELSE "sell"

\* C21: without conflict the local action is buy for fused > 0.1, sell for
\* fused < -0.1, else hold; under conflict it is hold when confidence is
\* below 0.25 and otherwise follows the technical bias when the regime is
\* trending and the sentiment bias when it is not.
Thm_C21_LocalAction ==
    call.fn = "decideTrade" =>
        ret.value.action =
            IF ~Conflicting(ret.value) THEN ByThreshold(ret.value.fused)
            ELSE IF RLt(ret.value.confidence, Rat(1, 4)) THEN "hold"
            ELSE IF ret.value.regime.trending THEN Direction(ret.value.techBias > 0)
            ELSE Direction(RLt(Num(0), ret.value.sentimentBias))

\* C21 witness: a trending conflict with confidence at least 0.25 whose
\* fused value points the other way; the action follows the technical bias.
Wit_C21_TrendingConflict ==
    /\ call.fn = "decideTrade"
    /\ Conflicting(ret.value)
    /\ ret.value.regime.trending
    /\ RLe(Rat(1, 4), ret.value.confidence)
    /\ ret.value.techBias > 0
    /\ RLt(ret.value.fused, Rat(-1, 10))
    /\ ret.value.action = "buy"

\* the 5m Bollinger bands exist (20 closes; the RSI needs only 15)
BandsAvailable(c) ==
    c.n5 >= 20

\* C22: the mean-reversion bias is +1 when the last 5m price is below the
\* lower band and the 5m RSI is below 30 (RSI = 0 included), -1 when the
\* price is above the upper band and the RSI is above 70, and 0 otherwise.
Cex_C22_MeanReversion ==
    call.fn = "analyzeMultiTimeframe" =>
        ret.value.mrBias =
            IF /\ BandsAvailable(call.candles)
               /\ RLt(call.candles.last5, call.candles.bb5.lower)
               /\ RLt(call.candles.rsi5, Num(30))
            THEN 1
            ELSE IF /\ BandsAvailable(call.candles)
                    /\ RLt(call.candles.bb5.upper, call.candles.last5)
                    /\ RLt(Num(70), call.candles.rsi5)
            THEN -1
            ELSE 0

Within(x, lo, hi) ==
    RLe(lo, x) /\ RLe(x, hi)

\* C23: computePerfWeights returns two non-negative weights that sum to 1
\* (0.5 / 0.5 without history), and the weights decideTrade blends from
\* them lie in [0.2, 0.8] each, their normalised pair summing to 1.
Cex_C23_WeightsSumToOne ==
    /\ call.fn = "computePerfWeights" =>
          /\ RLe(Num(0), ret.value.tech)
          /\ RLe(Num(0), ret.value.sentiment)
          /\ RAdd(ret.value.tech, ret.value.sentiment) = Num(1)
          /\ call.recentTrades = << >> =>
                (ret.value.tech = Rat(1, 2) /\ ret.value.sentiment = Rat(1, 2))
    /\ call.fn = "decideTrade" =>
          /\ Within(ret.value.techWeight, Rat(2, 10), Rat(8, 10))
          /\ Within(ret.value.sentWeight, Rat(2, 10), Rat(8, 10))
          /\ RAdd(RDiv(ret.value.techWeight, ret.value.norm),
                  RDiv(ret.value.sentWeight, ret.value.norm)) = Num(1)

\* |notional| of a position, as an exact integer
Notional(pos) ==
    IF IsNum(pos.notionalValue) THEN Abs(pos.notionalValue[1]) ELSE 0

RECURSIVE SumNotional(_)
SumNotional(portfolio) ==
    IF portfolio = << >> THEN 0
    ELSE Notional(Head(portfolio)) + SumNotional(Tail(portfolio))

RECURSIVE SumSquares(_)
SumSquares(portfolio) ==
    IF portfolio = << >> THEN 0
    ELSE Notional(Head(portfolio)) * Notional(Head(portfolio)) + SumSquares(Tail(portfolio))

\* the sum of squared notional weights, exactly
Herfindahl(portfolio) ==
    Rat(SumSquares(portfolio), SumNotional(portfolio) * SumNotional(portfolio))

\* C24: riskConcentration is the sum of squared position-notional weights
\* for every portfolio (with a non-zero total), hence within [1/n, 1] for n
\* positions, and is 1 for a single position.
Cex_C24_Concentration ==
    (/\ call.fn = "analyzePortfolioCorrelation"
     /\ SumNotional(call.positions) > 0) =>
        /\ Close(ret.value.riskConcentration, Herfindahl(call.positions))
        /\ (RLe(ret.value.riskConcentration, Num(1))
            \/ Close(ret.value.riskConcentration, Num(1)))
        /\ (RLe(Rat(1, Len(call.positions)), ret.value.riskConcentration)
            \/ Close(ret.value.riskConcentration, Rat(1, Len(call.positions))))
        /\ Len(call.positions) = 1 => ret.value.riskConcentration = Num(1)

RECURSIVE TotalVolume(_)
TotalVolume(candles) ==
    IF candles = << >> THEN Num(0)
    ELSE RAdd(IF Head(candles).volume = Null THEN Num(0) ELSE Head(candles).volume,
              TotalVolume(Tail(candles)))

RECURSIVE SumOf(_)
SumOf(nodes) ==
    IF nodes = << >> THEN Num(0) ELSE RAdd(Head(nodes), SumOf(Tail(nodes)))

\* the width of one of `bins` equal buckets over [min, max]
Width(profile, bins) ==
    RDiv(RSub(profile.range.max, profile.range.min), Num(bins))

\* the midpoint of bucket k (0-based) of that partition
Midpoint(profile, bins, k) ==
    RAdd(profile.range.min,
         RAdd(RMul(Num(k), Width(profile, bins)), RDiv(Width(profile, bins), Num(2))))

\* bucket k holds the maximum, and no earlier bucket does
FirstMaximal(nodes, k) ==
    /\ \A j \in 1..Len(nodes) : RLe(nodes[j], nodes[k + 1])
    /\ \A j \in 1..k : RLt(nodes[j], nodes[k + 1])

\* C25: volumeProfile splits [min, max] into `bins` equal buckets, puts
\* every candle's volume into exactly one bucket (the buckets sum to the
\* total volume), and reports as point of control the midpoint of the
\* first bucket of maximal volume, a price within [min, max].
Cex_C25_PointOfControl ==
    (call.fn = "volumeProfileBins" /\ call.candles # << >>) =>
        /\ Len(ret.value.nodes) = call.bins
        /\ SumOf(ret.value.nodes) = TotalVolume(call.candles)
        /\ \E k \in 0..(call.bins - 1) :
              /\ FirstMaximal(ret.value.nodes, k)
              /\ ret.value.poc = Midpoint(ret.value, call.bins, k)
        /\ Within(ret.value.poc, ret.value.range.min, ret.value.range.max)

(***************************************************************************)
(* Properties of the trading loop                                          *)
(***************************************************************************)
\* DRY_RUN is set, and set to 'false' in some letter case
ExplicitlyFalse(e) ==
    e.DRY_RUN \in {"false", "FALSE", "False"}

\* C26: an order is handed to api.placeOrder only if DRY_RUN is explicitly
\* 'false', the decision's action is buy or sell, its sizeUsd is above 0
\* and the estimated quantity is above 0; a hold or risk_halt decision, a
\* throw of decideTrade, or a cycle in the default (dry-run) mode places no
\* order, and a cycle places at most one order.
Thm_C26_OrderOnlyWhenLive ==
    /\ Len(orders) <= 1
    /\ orders # << >> =>
          /\ ExplicitlyFalse(env)
          /\ result.outcome = "returned"
          /\ result.decision.action \in {"buy", "sell"}
          /\ RLt(Num(0), result.decision.sizeUsd)
          /\ RLt(Num(0), qty)
          /\ orders[1].quantity = qty
    /\ (\/ result.outcome = "threw"
        \/ result.decision.action = "hold"
        \/ result.decision.reason = "risk_halt"
        \/ env.DRY_RUN \in {"", "true"}) => orders = << >>

\* a live cycle that placed a sell order and is about to return
Wit_C26_LiveSell ==
    /\ pc = "finished"
    /\ Len(orders) = 1
    /\ orders[1].side = "SELL"
    /\ env.DRY_RUN = "FALSE"

(***************************************************************************)
(* Properties of the position sizing                                       *)
(***************************************************************************)
\* C27: before any advisory is applied, a confidence of at most 0.4 gives
\* sizeUsd = 0, sizeUsd is at most 10% of the account equity when the ATR
\* fraction is not negative, and a buy or sell whose fused magnitude is
\* within (0.1, 0.4] has size 0.
Cex_C27_ZeroSizeBelowBreakEven ==
    (call.fn = "decideTrade" /\ ~ret.value.halt) =>
        /\ RLe(ret.value.confidence, Rat(4, 10)) => ret.value.sizeUsd = Num(0)
        /\ RLe(Num(0), ret.value.atrPct) =>
              RLe(ret.value.sizeUsd, RMul(Rat(1, 10), ret.value.accountEquityUsd))
        /\ (/\ ret.value.action \in {"buy", "sell"}
            /\ RLt(Rat(1, 10), RAbs(ret.value.fused))
            /\ RLe(RAbs(ret.value.fused), Rat(4, 10))) => ret.value.sizeUsd = Num(0)

(***************************************************************************)
(* Properties of AsterWebSocket                                            *)
(***************************************************************************)
\* a socket has closed in this step
Closing ==
    \E i \in 1..Len(sockets) : sockets[i] # "closed" /\ sockets'[i] = "closed"

\* a socket has opened in this step
Opening ==
    \E i \in 1..Len(sockets) : sockets[i] = "connecting" /\ sockets'[i] = "open"

\* one more reconnect is pending, after the delay d
SchedulesOne(d) ==
    timers' = Append(timers, d)

\* C28: once disconnect() has been called no further socket is created and
\* no further ping is sent, whatever the order of close events, reconnect
\* timers and the call; before it, every close schedules exactly one
\* reconnect, after a delay that starts at reconnectBaseMs, doubles with
\* every close, stays at or below reconnectMaxMs, and is reset to
\* reconnectBaseMs by an open.
Cex_C28_QuietAfterDisconnect ==
    [][/\ disconnected => (Len(sockets') = Len(sockets) /\ pings' = pings)
       /\ (Closing /\ ~disconnected) =>
             /\ SchedulesOne(backoff)
             /\ backoff <= reconnectMaxMs
             /\ backoff' = IF 2 * backoff <= reconnectMaxMs THEN 2 * backoff
                           ELSE reconnectMaxMs
       /\ Opening => backoff' = reconnectBaseMs]_vars

(***************************************************************************)
(* Properties of AsterApiClient                                            *)
(***************************************************************************)
\* the configured number of retries, 3 when none is configured
Configured ==
    IF maxRetries = Null THEN 3 ELSE maxRetries[1]

\* the last response had a status of 500 or above, or 429
ServerSide ==
    status # Null /\ (RLe(Num(500), status) \/ status = Num(429))

\* C29: a failed request is sent again only after a status >= 500 or 429,
\* at most maxRetries times (3 unless configured), so it is sent at most
\* 1 + maxRetries times and then rejected; a failure with another status,
\* or without a response, is rejected at once.
Cex_C29_BoundedRetries ==
    /\ attempts <= 1 + Configured
    /\ request = "waiting" => ServerSide
    /\ (request = "rejected" /\ ServerSide) => attempts = 1 + Configured

(***************************************************************************)
(* Properties of TradingSimulator                                          *)
(***************************************************************************)
\* the call made in this step is a buy the balance does not cover
Uncovered ==
    /\ toLowerCase(executing'.action) = "buy"
    /\ RLt(balance, RAdd(executing'.sizeUsd, RMul(executing'.sizeUsd, fees)))

\* the call made in this step is a sell of a symbol that is not held
NothingToSell ==
    /\ toLowerCase(executing'.action) = "sell"
    /\ executing'.symbol \notin DOMAIN positions

\* C30: after any sequence of executeTrade calls on a fresh or reset
\* simulator the balance is not negative and every quantity in the
\* positions map is above 0; a buy the balance does not cover and a sell of
\* a symbol that is not held return null and leave balance, positions and
\* trades as they were.
Cex_C30_SolventSimulator ==
    [][/\ RLe(Num(0), balance')
       /\ \A sym \in DOMAIN positions' : RLt(Num(0), positions'[sym])
       /\ (executed' # "none" /\ (Uncovered \/ NothingToSell)) =>
             /\ executed' = "null"
             /\ UNCHANGED << balance, positions, trades >>]_vars

====
